---------------------------- MODULE Spec2Model ----------------------------
(***************************************************************************)
(* A model of the pyth-go client (Blockdaemon/pyth-go).                    *)
(*                                                                         *)
(* Part I   - the reconnecting price-account stream                        *)
(*            (Client.StreamPriceAccounts, streamPriceAccounts,            *)
(*            readNextUpdate in stream.go) with the goroutines it starts   *)
(*            (the connection closer, the read-timeout watchdog) and the   *)
(*            consumer of the updates channel.                             *)
(* Part II  - the callback dispatcher (PriceEventHandler in stream.go).    *)
(*                                                                         *)
(* The WebSocket library (ws.Connect, ProgramSubscribeWithOpts, Recv,      *)
(* Unsubscribe, Close), the backoff library (backoff.Retry with            *)
(* WithContext) and Go's context package are the environment.  They are    *)
(* modelled by their contract: Recv fails once the subscription has been   *)
(* unsubscribed or the connection closed, Connect fails on a finished      *)
(* context, Retry stops on a Permanent error or a finished context and     *)
(* then returns the context's error.                                       *)
(***************************************************************************)
EXTENDS Integers, Sequences, FiniteSets, TLC

\* The number of notifications the transport delivers in a run.
MaxNotifs == 2

\* The nil pointer, the missing map entry.
Nil == [nil |-> TRUE]

---------------------------------------------------------------------------
(* Part I: the stream                                                      *)

VARIABLES
    ctxErr,       \* the caller's context: "none" while live, else its Err()
    pc,           \* where the StreamPriceAccounts call stands
    lastErr,      \* the error the last cycle (streamPriceAccounts) ended with
    retErr,       \* the error StreamPriceAccounts returned
    client,       \* the ws.Client of the current cycle: "none", "open", "closed"
    sub,          \* the ProgramSubscription of the cycle: "none", "open", "closed"
    readCtx,      \* the timeout context of the current readNextUpdate
    wdPending,    \* a watchdog saw DeadlineExceeded and has yet to Unsubscribe
    msg,          \* the decoded update readNextUpdate is pushing (0: none)
    nRecv,        \* notifications received from the transport so far
    notifs,       \* the notifications received, in the order of receipt
    delivered,    \* the updates the consumer took from the channel, in order
    consPc,       \* the consumer of the channel: "wait", "busy", "done"
    closeCount,   \* how many times the updates channel was closed
    sentOnClosed, \* an update was sent on the channel after it was closed
    timedOut      \* the read timeout expired on a pending Recv in this cycle

streamVars == <<ctxErr, pc, lastErr, retErr, client, sub, readCtx, wdPending,
                msg, nRecv, notifs, delivered, consPc, closeCount,
                sentOnClosed,
                timedOut>>

\* The price keys and publisher keys of a run; ZeroKey is the zero public key.
PriceKeys == {"K1", "K2"}
Publishers == {"P1", "P2"}
ZeroKey == "zero"

\* The publisher of an aggregate registration's handle: none.
NoPublisher == "-"

\* The length of PriceAccount.Components (32 in the source).
NumComponents == 2

\* The number of registrations a run makes.
MaxRegs == 2

Ids == 1..MaxRegs

VARIABLES
    callbacks,      \* PriceEventHandler.callbacks: price key -> priceCallbacks
    regNonce,       \* PriceEventHandler.regNonce
    previousInfo,   \* callbackRegistration.previousInfo of each registration
    handles,        \* the CallbackHandle each registration returned
    callbacksLock,  \* PriceEventHandler.callbacksLock: "free" or "held"
    hpc,            \* where the consume goroutine stands
    cur,            \* the update processUpdate is dispatching
    slot,           \* the index of the component loop
    visited,        \* the registrations the current map range has yielded
    picked,         \* the registration inform is running on
    updatesClosed,  \* the stream's updates channel is closed
    unsubscribed,   \* the handles on which an Unsubscribe has returned
    lastNew,        \* per registration: the info of the last update dispatched to it
    lastCurrent,    \* per registration: the CurrentInfo of its last invocation
    event,          \* the last inform: who, invoked or not, on which values
    invoked,        \* the registrations invoked during the current dispatch
    invokedTwice,   \* a callback was invoked twice for one update
    invokedAfterUnsub, \* a callback was invoked after its Unsubscribe returned
    errReturned     \* a call of PriceEventHandler.Err has returned

hVars == <<callbacks, regNonce, previousInfo, handles, callbacksLock, hpc, cur,
           slot, visited, picked, updatesClosed, unsubscribed, lastNew,
           lastCurrent, event,
           invoked, invokedTwice, invokedAfterUnsub, errReturned>>

VARIABLES
    qOp,         \* the query running: "keys", "products", "prices" or "idle"
    qChain,      \* on chain: the Next key of each mapping or price account
    qNum,        \* on chain: the Num field of each mapping account
    qBad,        \* on chain: the account whose data is missing or malformed
    qBatch,      \* Client.AccountsBatchSize
    qStart,      \* the keys the query starts from
    qQueue,      \* the keys still to fetch (keys, priceKeys, or next)
    qI,          \* the loop index i of GetAllProductKeys
    qSeen,       \* the seen set of GetPriceAccountsRecursive
    qAccs,       \* the entries accumulated (products, accs)
    qpc,         \* "loop", or how the call ended: "done", "error", "panic"
    qErr,        \* the error the call returned
    qRet,        \* the entries the call returned
    qFetches,    \* the RPC requests issued so far
    qRequested   \* the keys requested so far, each with the number of its request

qVars == <<qOp, qChain, qNum, qBad, qBatch, qStart, qQueue, qI, qSeen, qAccs,
           qpc, qErr, qRet, qFetches, qRequested>>

VARIABLES
    cOp,    \* the conversion under way: "build", "decode", ... or "idle"
    cIn,    \* its input: the arguments of a builder call, or raw accounts and data
    cIns,   \* the value built from the input
    cData,  \* the bytes the value was encoded to
    cDec,   \* what decoding returned: a value and an error
    cpc     \* how far the conversion has got

cVars == <<cOp, cIn, cIns, cData, cDec, cpc>>

CtxErrors == {"Canceled", "DeadlineExceeded"}

\* Account type enum.
AccountTypeUnknown == 0
AccountTypeMapping == 1
AccountTypeProduct == 2
AccountTypePrice == 3

\* len(MappingAccount.Products), scaled down.
NumProducts == 2

\* The supported version of the on-chain program.
V2 == 2

\* The outcome of reading or writing without an error.
NoError == "none"

\* A uint32 as its two 16-bit halves: the magic number does not fit the
\* range of the model checker's integers.
U32(hi, lo) == [hi |-> hi, lo |-> lo]

\* The uint32 of a number below 65536.
U32Of(n) == U32(0, n)

U32Less(a, b) == a.hi < b.hi \/ (a.hi = b.hi /\ a.lo < b.lo)

\* The little-endian uint32 that starts at byte pos of data.
DecodeU32(data, pos) ==
    U32(data[pos + 2] + 256 * data[pos + 3], data[pos] + 256 * data[pos + 1])

EncodeU32(u) == <<u.lo % 256, u.lo \div 256, u.hi % 256, u.hi \div 256>>

\* Magic is the 32-bit number prefixed on each account, 0xa1b2c3d4.
Magic == U32(41394, 50132)

\* The size of AccountHeader, four uint32 fields.
AccountHeaderLen == 16

\* bin.Encoder.Encode of an AccountHeader.
EncodeAccountHeader(h) ==
    EncodeU32(h.Magic) \o EncodeU32(h.Version) \o EncodeU32(h.AccountType)
        \o EncodeU32(h.Size)

\* bin.Decoder.Decode of an AccountHeader; the caller has checked that
\* enough bytes are there.
DecodeAccountHeader(data) ==
    [Magic |-> DecodeU32(data, 1), Version |-> DecodeU32(data, 5),
     AccountType |-> DecodeU32(data, 9), Size |-> DecodeU32(data, 13)]

\* AccountHeader.Valid
AccountHeader_Valid_NoSize(h) == h.Magic = Magic /\ h.Version = U32Of(V2)

AccountHeader_Valid(h) ==
    h.Magic = Magic /\ h.Version = U32Of(V2) /\ U32Less(h.Size, U32(1, 0))

\* PeekAccount
PeekAccount_NoValid(data) ==
    IF Len(data) < AccountHeaderLen THEN U32Of(AccountTypeUnknown)
    ELSE DecodeAccountHeader(data).AccountType

PeekAccount(data) ==
    IF Len(data) < AccountHeaderLen
           \/ ~AccountHeader_Valid(DecodeAccountHeader(data))
    THEN U32Of(AccountTypeUnknown)
    ELSE DecodeAccountHeader(data).AccountType

\* ProductAccountHeaderLen is the offset of AttrsData in RawProductAccount.
ProductAccountHeaderLen == 48

\* The length of RawProductAccount.AttrsData (464 on chain).
AttrsDataLen == 16

\* The sizes of the records: the header and the fields that follow it.
RawProductAccountLen == ProductAccountHeaderLen + AttrsDataLen

PriceAccountLen ==
    AccountHeaderLen + 4 * 4 + 2 * 8 + 2 * 24 + 2 * 8 + 2 * 32 + 4 * 8 + 32
        + NumComponents * (32 + 32 + 32)

MappingAccountLen == AccountHeaderLen + 4 + 4 + 32 + NumProducts * 32

\* The checks the three UnmarshalBinary methods share: the record is
\* whole, its header is valid, its account type is the requested one.
UnmarshalChecks_AnyType(buf, len, type, text) ==
    IF Len(buf) < len THEN "unexpected EOF"
    ELSE IF ~AccountHeader_Valid(DecodeAccountHeader(buf))
    THEN "invalid account"
    ELSE NoError

UnmarshalChecks(buf, len, type, text) ==
    IF Len(buf) < len THEN "unexpected EOF"
    ELSE IF ~AccountHeader_Valid(DecodeAccountHeader(buf))
    THEN "invalid account"
    ELSE IF DecodeAccountHeader(buf).AccountType # U32Of(type) THEN text
    ELSE NoError

\* PriceAccount.UnmarshalBinary
PriceAccount_UnmarshalBinary(buf) ==
    [err |-> UnmarshalChecks(buf, PriceAccountLen, AccountTypePrice,
                             "not a price account")]

\* MappingAccount.UnmarshalBinary
MappingAccount_UnmarshalBinary(buf) ==
    [err |-> UnmarshalChecks(buf, MappingAccountLen, AccountTypeMapping,
                             "not a mapping account")]

\* The program whose accounts the stream is subscribed to.
Program == "program"

\* A header the account data of a notification starts with.
NotifHeader(magic, type) ==
    EncodeAccountHeader([Magic |-> magic, Version |-> U32Of(V2),
                         AccountType |-> U32Of(type),
                         Size |-> U32Of(PriceAccountLen)])

\* The account data of the notifications: a price account, a price
\* account that lacks its last byte, a product account, data with a wrong
\* magic number that gives its type as price, and data shorter than a
\* header.
AccountData(name) ==
    CASE name = "price" ->
           NotifHeader(Magic, AccountTypePrice)
               \o [i \in 1..(PriceAccountLen - AccountHeaderLen) |-> 0]
      [] name = "cut" ->
           NotifHeader(Magic, AccountTypePrice)
               \o [i \in 1..(PriceAccountLen - AccountHeaderLen - 1) |-> 0]
      [] name = "product" ->
           NotifHeader(Magic, AccountTypeProduct)
               \o [i \in 1..(PriceAccountLen - AccountHeaderLen) |-> 0]
      [] name = "invalid" ->
           NotifHeader(U32Of(0), AccountTypePrice)
               \o [i \in 1..(PriceAccountLen - AccountHeaderLen) |-> 0]
      [] name = "short" -> <<1, 2, 3>>

\* A notification as readNextUpdate sees it: who owns the account and
\* what its data is.
Notifications ==
    [owner : {Program, "other"},
     data  : {"price", "cut", "product", "invalid", "short"}]

\* readNextUpdate's filter: the owner is the program and the data peeks
\* as a price account.
PassesFilter_AnyOwner(n) ==
    PeekAccount(AccountData(n.data)) = U32Of(AccountTypePrice)

PassesFilter(n) ==
    /\ n.owner = Program
    /\ PeekAccount(AccountData(n.data)) = U32Of(AccountTypePrice)

\* readNextUpdate's filter and decode: TRUE iff the notification is pushed.
Accepted_NoDecode(n) == PassesFilter(n)

Accepted(n) ==
    /\ PassesFilter(n)
    /\ PriceAccount_UnmarshalBinary(AccountData(n.data)).err = NoError

\* context.WithTimeout(ctx, readTimeout) at the start of a readNextUpdate:
\* a child of a finished context is finished with the parent's error.
NewReadCtx == IF ctxErr = "none" THEN "live" ELSE ctxErr

\* The watchdog goroutine of a readNextUpdate unsubscribes iff its context
\* ended with DeadlineExceeded.
WatchdogArmed(rc) == rc = "DeadlineExceeded"

StreamInit ==
    /\ ctxErr = "none"
    /\ pc = "connect"
    /\ lastErr = "none"
    /\ retErr = "none"
    /\ client = "none"
    /\ sub = "none"
    /\ readCtx = "none"
    /\ wdPending = FALSE
    /\ msg = 0
    /\ nRecv = 0
    /\ notifs = <<>>
    /\ delivered = <<>>
    /\ consPc = "wait"
    /\ closeCount = 0
    /\ sentOnClosed = FALSE
    /\ timedOut = FALSE


\* streamPriceAccounts returns err: the deferred client.Close() runs, the
\* cycle's subscription and read context are gone with it.
\* A return that leaves the connection and its subscription as they are.
CycleEnds_NoClose(err) ==
    /\ lastErr' = err
    /\ pc' = "retry"
    /\ client' = client
    /\ sub' = sub
    /\ readCtx' = "none"
    /\ wdPending' = FALSE
    /\ msg' = 0

CycleEnds(err) ==
    /\ lastErr' = err
    /\ pc' = "retry"
    /\ client' = IF client = "none" THEN "none" ELSE "closed"
    /\ sub' = "none"
    /\ readCtx' = "none"
    /\ wdPending' = FALSE
    /\ msg' = 0

\* readNextUpdate returns nil and the read loop calls it again: a new timeout
\* context and a new watchdog, on the same subscription.
NextRead ==
    /\ pc' = "recv"
    /\ readCtx' = NewReadCtx
    /\ wdPending' = (wdPending \/ WatchdogArmed(NewReadCtx))
    /\ msg' = 0

\* The caller cancels the context, or the context passes its own deadline.
\* The cancellation reaches the read context, its child, at once.
CallerCancel ==
    /\ ctxErr = "none"
    /\ \E e \in CtxErrors :
        /\ ctxErr' = e
        /\ readCtx' = IF readCtx = "live" THEN e ELSE readCtx
        /\ wdPending' = (wdPending \/ (readCtx = "live" /\ WatchdogArmed(e)))
    /\ UNCHANGED <<pc, lastErr, retErr, client, sub, msg, nRecv, notifs, delivered,
                   consPc, closeCount, sentOnClosed, timedOut>>
    /\ UNCHANGED <<hVars, qVars, cVars>>

\* ws.Connect(ctx, url) succeeds; the closer goroutine is started.
Connect ==
    /\ pc = "connect"
    /\ ctxErr = "none"
    /\ client' = "open"
    /\ pc' = "subscribe"
    /\ timedOut' = FALSE
    /\ UNCHANGED <<ctxErr, lastErr, retErr, sub, readCtx, wdPending, msg,
                   nRecv, notifs, delivered, consPc, closeCount, sentOnClosed>>
    /\ UNCHANGED <<hVars, qVars, cVars>>

\* ws.Connect fails: the transport, or the context is finished.
ConnectFail ==
    /\ pc = "connect"
    /\ \E e \in {"transport"} \cup ({ctxErr} \ {"none"}) : CycleEnds(e)
    /\ timedOut' = FALSE
    /\ UNCHANGED <<ctxErr, retErr, nRecv, notifs, delivered, consPc, closeCount,
                   sentOnClosed>>
    /\ UNCHANGED <<hVars, qVars, cVars>>

\* "Make sure client cannot outlive context": the closer goroutine.
CloserClose ==
    /\ ctxErr # "none"
    /\ client = "open"
    /\ client' = "closed"
    /\ UNCHANGED <<ctxErr, pc, lastErr, retErr, sub, readCtx, wdPending, msg,
                   nRecv, notifs, delivered, consPc, closeCount, sentOnClosed, timedOut>>
    /\ UNCHANGED <<hVars, qVars, cVars>>

\* ProgramSubscribeWithOpts succeeds and the read loop enters readNextUpdate.
Subscribe ==
    /\ pc = "subscribe"
    /\ client = "open"
    /\ sub' = "open"
    /\ pc' = "recv"
    /\ readCtx' = NewReadCtx
    /\ wdPending' = WatchdogArmed(NewReadCtx)
    /\ UNCHANGED <<ctxErr, lastErr, retErr, client, msg, nRecv, notifs, delivered,
                   consPc, closeCount, sentOnClosed, timedOut>>
    /\ UNCHANGED <<hVars, qVars, cVars>>

\* ProgramSubscribeWithOpts fails (closed connection, write error).
SubscribeFail ==
    /\ pc = "subscribe"
    /\ CycleEnds("transport")
    /\ UNCHANGED <<ctxErr, retErr, nRecv, notifs, delivered, consPc, closeCount,
                   sentOnClosed, timedOut>>
    /\ UNCHANGED <<hVars, qVars, cVars>>

\* The read timeout of the current readNextUpdate expires.
TimerFire ==
    /\ pc \in {"recv", "push"}
    /\ readCtx = "live"
    /\ readCtx' = "DeadlineExceeded"
    /\ wdPending' = TRUE
    /\ timedOut' = (timedOut \/ pc = "recv")
    /\ UNCHANGED <<ctxErr, pc, lastErr, retErr, client, sub, msg, nRecv, notifs,
                   delivered, consPc, closeCount, sentOnClosed>>
    /\ UNCHANGED <<hVars, qVars, cVars>>

\* The watchdog goroutine: sub.Unsubscribe() after DeadlineExceeded.
Watchdog ==
    /\ wdPending
    /\ wdPending' = FALSE
    /\ sub' = IF sub = "open" THEN "closed" ELSE sub
    /\ UNCHANGED <<ctxErr, pc, lastErr, retErr, client, readCtx, msg, nRecv, notifs,
                   delivered, consPc, closeCount, sentOnClosed, timedOut>>
    /\ UNCHANGED <<hVars, qVars, cVars>>

\* sub.Recv() returns a notification; readNextUpdate filters and decodes it.
RecvUpdate ==
    /\ pc = "recv"
    /\ sub = "open"
    /\ client = "open"
    /\ nRecv < MaxNotifs
    /\ nRecv' = nRecv + 1
    /\ \E n \in Notifications :
        /\ notifs' = Append(notifs, n)
        /\ IF Accepted(n)
           THEN /\ pc' = "push"
                /\ msg' = nRecv + 1
                /\ UNCHANGED <<readCtx, wdPending>>
           ELSE NextRead
    /\ UNCHANGED <<ctxErr, lastErr, retErr, client, sub, delivered, consPc,
                   closeCount, sentOnClosed, timedOut>>
    /\ UNCHANGED <<hVars, qVars, cVars>>

\* sub.Recv() returns an error: unsubscribed, connection closed or broken.
RecvFail ==
    /\ pc = "recv"
    /\ CycleEnds("transport")
    /\ UNCHANGED <<ctxErr, retErr, nRecv, notifs, delivered, consPc, closeCount,
                   sentOnClosed, timedOut>>
    /\ UNCHANGED <<hVars, qVars, cVars>>

\* A push that hands the update over and stays where it is, to send the
\* same update again.
PushDeliver_Resend ==
    /\ pc = "push"
    /\ consPc = "wait"
    /\ delivered' = Append(delivered, msg)
    /\ consPc' = "busy"
    /\ sentOnClosed' = (sentOnClosed \/ closeCount > 0)
    /\ UNCHANGED <<pc, readCtx, wdPending, msg>>
    /\ UNCHANGED <<ctxErr, lastErr, retErr, client, sub, nRecv, notifs, closeCount,
                   timedOut>>
    /\ UNCHANGED <<hVars, qVars, cVars>>

\* select: updates <- msg, the consumer takes the update.
PushDeliver ==
    /\ pc = "push"
    /\ consPc = "wait"
    /\ delivered' = Append(delivered, msg)
    /\ consPc' = "busy"
    /\ sentOnClosed' = (sentOnClosed \/ closeCount > 0)
    /\ NextRead
    /\ UNCHANGED <<ctxErr, lastErr, retErr, client, sub, nRecv, notifs, closeCount,
                   timedOut>>
    /\ UNCHANGED <<hVars, qVars, cVars>>

\* select: <-ctx.Done(), where ctx is the read context that shadows the
\* caller's: readNextUpdate returns ctx.Err().
PushCtxDone ==
    /\ pc = "push"
    /\ readCtx # "live"
    /\ CycleEnds(readCtx)
    /\ UNCHANGED <<ctxErr, retErr, nRecv, notifs, delivered, consPc, closeCount,
                   sentOnClosed, timedOut>>
    /\ UNCHANGED <<hVars, qVars, cVars>>

\* The closure of StreamPriceAccounts and backoff.Retry on its result:
\* Canceled and DeadlineExceeded are Permanent; otherwise NextBackOff, which
\* is Stop on a finished context.
IsPermanent(err) == err \in {"Canceled", "DeadlineExceeded"}

RetryDecide ==
    /\ pc = "retry"
    /\ IF IsPermanent(lastErr)
       THEN pc' = "returned" /\ retErr' = lastErr
       ELSE IF ctxErr # "none"
            THEN pc' = "returned" /\ retErr' = ctxErr
            ELSE pc' = "sleep" /\ retErr' = retErr
    /\ UNCHANGED <<ctxErr, lastErr, client, sub, readCtx, wdPending, msg,
                   nRecv, notifs, delivered, consPc, closeCount, sentOnClosed, timedOut>>
    /\ UNCHANGED <<hVars, qVars, cVars>>

\* backoff.Retry's select: the retry interval has passed.
SleepWake ==
    /\ pc = "sleep"
    /\ pc' = "connect"
    /\ UNCHANGED <<ctxErr, lastErr, retErr, client, sub, readCtx, wdPending,
                   msg, nRecv, notifs, delivered, consPc, closeCount, sentOnClosed,
                   timedOut>>
    /\ UNCHANGED <<hVars, qVars, cVars>>

\* backoff.Retry's select: <-ctx.Done().
SleepCtxDone ==
    /\ pc = "sleep"
    /\ ctxErr # "none"
    /\ pc' = "returned"
    /\ retErr' = ctxErr
    /\ UNCHANGED <<ctxErr, lastErr, client, sub, readCtx, wdPending, msg,
                   nRecv, notifs, delivered, consPc, closeCount, sentOnClosed, timedOut>>
    /\ UNCHANGED <<hVars, qVars, cVars>>

\* The owner of the updates channel closes it when StreamPriceAccounts has
\* returned.
CloseUpdates ==
    /\ pc = "returned"
    /\ closeCount = 0
    /\ closeCount' = closeCount + 1
    /\ UNCHANGED <<ctxErr, pc, lastErr, retErr, client, sub, readCtx,
                   wdPending, msg, nRecv, notifs, delivered, consPc, sentOnClosed,
                   timedOut>>
    /\ UNCHANGED <<hVars, qVars, cVars>>

\* The consumer has processed the update it took and ranges on.
ConsumeDone ==
    /\ consPc = "busy"
    /\ consPc' = "wait"
    /\ UNCHANGED <<ctxErr, pc, lastErr, retErr, client, sub, readCtx,
                   wdPending, msg, nRecv, notifs, delivered, closeCount, sentOnClosed,
                   timedOut>>
    /\ UNCHANGED <<hVars, qVars, cVars>>

\* A consume loop that gives up although the channel is still open.
ConsumeEnd_Early ==
    /\ consPc = "wait"
    /\ consPc' = "done"
    /\ UNCHANGED <<ctxErr, pc, lastErr, retErr, client, sub, readCtx,
                   wdPending, msg, nRecv, notifs, delivered, closeCount, sentOnClosed,
                   timedOut>>
    /\ UNCHANGED <<hVars, qVars, cVars>>

\* "for update := range updates" ends when the channel is closed.
ConsumeEnd ==
    /\ consPc = "wait"
    /\ closeCount > 0
    /\ consPc' = "done"
    /\ UNCHANGED <<ctxErr, pc, lastErr, retErr, client, sub, readCtx,
                   wdPending, msg, nRecv, notifs, delivered, closeCount, sentOnClosed,
                   timedOut>>
    /\ UNCHANGED <<hVars, qVars, cVars>>

StreamNext ==
    \/ CallerCancel
    \/ Connect
    \/ ConnectFail
    \/ CloserClose
    \/ Subscribe
    \/ SubscribeFail
    \/ TimerFire
    \/ Watchdog
    \/ RecvUpdate
    \/ RecvFail
    \/ PushDeliver
    \/ PushCtxDone
    \/ RetryDecide
    \/ SleepWake
    \/ SleepCtxDone
    \/ CloseUpdates
    \/ ConsumeDone
    \/ ConsumeEnd

vars == <<streamVars, hVars, qVars, cVars>>


---------------------------------------------------------------------------
(* Claims on the stream                                                    *)

\* C1: StreamPriceAccounts returns only after the caller's context has been
\* cancelled or has passed its deadline; whenever the call has returned, the
\* caller's context is finished.
C1_ReturnsOnlyAfterCancel == pc = "returned" => ctxErr # "none"

\* C2: whenever a cycle has ended with an error and the caller has not
\* cancelled, the retry loop goes on to the backoff interval (and from there
\* to a new cycle); it never returns.
C2_TransientErrorsRetried ==
    [][(pc = "retry" /\ ctxErr' = "none") => pc' \in {"retry", "sleep"}]_vars

\* C3: when StreamPriceAccounts returns after the caller has cancelled, the
\* error it returns is the error of the caller's context.
C3_ReturnsContextError ==
    [][(pc # "returned" /\ pc' = "returned" /\ ctxErr # "none")
          => retErr' = ctxErr]_vars

\* C4: after the read timeout has expired on a pending Recv, and while the
\* caller's context is live, the cycle ends only with a transient error and
\* the stream does not terminate.
C4_IdleTimeoutIsTransient ==
    (timedOut /\ ctxErr = "none")
        => (pc # "returned" /\ (pc = "retry" => lastErr = "transport"))

\* C5: the read loop leaves the push of a decoded update only when a consumer
\* has taken the update or the caller has cancelled the stream.
C5_PushBlocksUntilTaken ==
    [][(pc = "push" /\ pc' # "push")
          => (delivered' # delivered \/ ctxErr # "none")]_vars

C12_DeliveredInReceiveOrder ==
    /\ \A i, j \in 1..Len(delivered) : i < j => delivered[i] < delivered[j]
    /\ \A i \in 1..Len(delivered) : delivered[i] \in 1..nRecv
    /\ pc = "push"
          => (msg = nRecv /\ \A i \in 1..Len(delivered) : delivered[i] < msg)

\* C12 witness: the consumer has taken one update, is still processing
\* another, and a further cycle of the stream is already under way.
C12_Witness ==
    /\ Len(delivered) >= 2
    /\ consPc = "busy"
    /\ pc \in {"recv", "retry", "sleep", "connect"}

\* C39: a StreamPriceAccounts call holds an open connection and an open
\* subscription only inside a cycle: whenever a connect attempt is about to
\* start, the retry loop decides or sleeps, or the call has returned, the
\* connection of the last cycle is closed and no subscription is open.
C39_OneConnection ==
    pc \in {"connect", "retry", "sleep", "returned"}
        => (client # "open" /\ sub # "open")

\* C39 witness: a cycle has ended with an error and the next cycle holds an
\* open connection with an open subscription.
C39_Witness ==
    /\ lastErr # "none"
    /\ pc = "recv"
    /\ client = "open"
    /\ sub = "open"

---------------------------------------------------------------------------
(* Part II: the callback dispatcher                                        *)

\* Price status.
PriceStatusUnknown == 0
PriceStatusTrading == 1
PriceStatusHalted == 2
PriceStatusAuction == 3

PriceInfo(price, conf, status, pubSlot) ==
    [Price |-> price, Conf |-> conf, Status |-> status, CorpAct |-> 0,
     PubSlot |-> pubSlot]

ZeroInfo == PriceInfo(0, 0, PriceStatusUnknown, 0)

\* The infos of a run: InfoB differs from InfoA in price and confidence only,
\* InfoC in the publishing slot, InfoD in the status.
InfoA == PriceInfo(100, 5, PriceStatusTrading, 7)
InfoB == PriceInfo(101, 6, PriceStatusTrading, 7)
InfoC == PriceInfo(100, 5, PriceStatusTrading, 8)
InfoD == PriceInfo(100, 5, PriceStatusHalted, 7)

AggInfos == {InfoA, InfoB, InfoC, InfoD}

\* The latest infos a publisher submits in a run.
CompInfosOf(publisher) == IF publisher = "P1" THEN {InfoA, InfoC} ELSE {InfoA}

\* A PriceComp: an unused slot has the zero publisher key and a zero info.
EmptyComp == [Publisher |-> ZeroKey, Latest |-> ZeroInfo]
CompSlots ==
    {EmptyComp} \cup
    UNION {{[Publisher |-> p, Latest |-> i] : i \in CompInfosOf(p)} :
              p \in Publishers}

\* The component arrays of a run: a publisher holds at most one slot.
ComponentLists ==
    {c \in [1..NumComponents -> CompSlots] :
        \A i, j \in 1..NumComponents :
            (i # j /\ c[i].Publisher # ZeroKey) => c[i].Publisher # c[j].Publisher}

EmptyComponents == [i \in 1..NumComponents |-> EmptyComp]

\* The accounts a run is fed under a price key.  Under K1: every aggregate
\* over an empty component array, and every component array under one
\* aggregate.  Under K2, the other key: a few of them.
AccountsOf(priceKey) ==
    IF priceKey = "K1"
    THEN [Agg : AggInfos, Components : {EmptyComponents}]
            \cup [Agg : {InfoA}, Components : ComponentLists]
    ELSE [Agg : {InfoA, InfoC}, Components : {EmptyComponents}]
            \cup {[Agg |-> InfoA,
                   Components |-> [EmptyComponents EXCEPT
                                      ![1] = [Publisher |-> "P1", Latest |-> InfoA]]]}

\* An update as consume reads it: update.Pubkey and update.Price.
Updates ==
    UNION {{[Pubkey |-> k, Price |-> a] : a \in AccountsOf(k)} : k \in PriceKeys}

\* The publishers OnComponentChange is called with in a run.
RegPublishers == {"P1"}

\* previousInfo is a pointer: nil, a pointer into the account of an earlier
\* update (its value is kept), or a pointer to the loop variable comp of the
\* component loop in processUpdate.
LoopVar == [loopVar |-> "comp"]

\* The loop variable of "for _, comp := range acc.Components": one variable
\* for the whole loop (Go 1.18), which holds the current slot's copy.
CompVar == cur.Price.Components[slot]

\* Its value once the loop is over: the copy of the last slot.
FinalCompVar == cur.Price.Components[NumComponents]

Deref(ptr) == IF ptr = LoopVar THEN CompVar.Latest ELSE ptr

\* A HasChanged that also compares the price.
HasChanged_Price(p, other) ==
    IF (p = Nil) # (other = Nil) THEN TRUE
    ELSE IF p = Nil THEN "panic"
    ELSE p.Status # other.Status \/ p.PubSlot # other.PubSlot
            \/ p.Price # other.Price

\* PriceInfo.HasChanged; with both pointers nil the field access panics.
HasChanged(p, other) ==
    IF (p = Nil) # (other = Nil) THEN TRUE
    ELSE IF p = Nil THEN "panic"
    ELSE p.Status # other.Status \/ p.PubSlot # other.PubSlot

\* A Go map with one more key.
MapPut(m, k, v) == [x \in DOMAIN m \cup {k} |-> IF x = k THEN v ELSE m[x]]

\* The empty Go map.
EmptyMap == [x \in {} |-> {}]

\* priceCallbacks.init
InitPriceCallbacks == [onPrice |-> {}, componentCallbacks |-> EmptyMap]

\* The table after getPriceCallbacks(priceKey).
getPriceCallbacks(t, priceKey) ==
    IF priceKey \notin DOMAIN t THEN MapPut(t, priceKey, InitPriceCallbacks) ELSE t

\* The table after getComponentCallbacks(priceKey, publisherKey).
getComponentCallbacks(t, priceKey, publisherKey) ==
    LET t1 == getPriceCallbacks(t, priceKey) IN
    IF publisherKey \notin DOMAIN t1[priceKey].componentCallbacks
    THEN [t1 EXCEPT ![priceKey].componentCallbacks = MapPut(@, publisherKey, {})]
    ELSE t1

\* processUpdate's reads of the table: a missing key reads as the zero value.
\* A read that yields the aggregate registrations of every key.
OnPriceOf_AnyKey(t, priceKey) ==
    UNION {t[k].onPrice : k \in DOMAIN t}

OnPriceOf(t, priceKey) ==
    IF priceKey \notin DOMAIN t THEN {} ELSE t[priceKey].onPrice

CompCbsOf(t, priceKey, publisher) ==
    IF publisher = ZeroKey THEN {}
    ELSE IF priceKey \notin DOMAIN t THEN {}
    ELSE IF publisher \notin DOMAIN t[priceKey].componentCallbacks THEN {}
    ELSE t[priceKey].componentCallbacks[publisher]

\* Every registration in the table.
Registered(t) ==
    UNION {OnPriceOf(t, k) : k \in PriceKeys}
        \cup UNION {CompCbsOf(t, k, p) : k \in PriceKeys, p \in Publishers}

HandlerInit ==
    /\ callbacks = EmptyMap
    /\ regNonce = 0
    /\ previousInfo = [i \in Ids |-> Nil]
    /\ handles = [i \in Ids |-> Nil]
    /\ callbacksLock = "free"
    /\ hpc = "wait"
    /\ cur = Nil
    /\ slot = 0
    /\ visited = {}
    /\ picked = 0
    /\ updatesClosed = FALSE
    /\ unsubscribed = {}
    /\ lastNew = [i \in Ids |-> Nil]
    /\ lastCurrent = [i \in Ids |-> Nil]
    /\ event = Nil
    /\ invoked = {}
    /\ invokedTwice = FALSE
    /\ invokedAfterUnsub = FALSE
    /\ errReturned = FALSE

\* callbackMap.register on the container of table t, and the handle it
\* returns.
register(t, priceKey, publisher) ==
    /\ regNonce' = regNonce + 1
    /\ callbacks' =
        IF publisher = NoPublisher
        THEN [t EXCEPT ![priceKey].onPrice = @ \cup {regNonce + 1}]
        ELSE [t EXCEPT ![priceKey].componentCallbacks[publisher] =
                            @ \cup {regNonce + 1}]
    /\ previousInfo' = [previousInfo EXCEPT ![regNonce + 1] = Nil]
    /\ handles' = [handles EXCEPT ![regNonce + 1] =
                      [priceKey |-> priceKey, publisher |-> publisher]]

\* PriceEventHandler.OnPriceChange
OnPriceChange ==
    /\ regNonce < MaxRegs
    /\ callbacksLock = "free"
    /\ \E k \in PriceKeys :
        register(getPriceCallbacks(callbacks, k), k, NoPublisher)
    /\ UNCHANGED <<callbacksLock, hpc, cur, slot, visited, picked,
                   updatesClosed, unsubscribed, lastNew, lastCurrent, event, invoked,
                   invokedTwice, invokedAfterUnsub>>
    /\ UNCHANGED <<errReturned, streamVars, qVars, cVars>>

\* PriceEventHandler.OnComponentChange
OnComponentChange ==
    /\ regNonce < MaxRegs
    /\ callbacksLock = "free"
    /\ \E k \in PriceKeys, p \in RegPublishers :
        register(getComponentCallbacks(callbacks, k, p), k, p)
    /\ UNCHANGED <<callbacksLock, hpc, cur, slot, visited, picked,
                   updatesClosed, unsubscribed, lastNew, lastCurrent, event, invoked,
                   invokedTwice, invokedAfterUnsub>>
    /\ UNCHANGED <<errReturned, streamVars, qVars, cVars>>

\* delete(c.container, c.key)
\* A delete that empties the container of the handle.
Deleted_Container(t, id) ==
    LET h == handles[id] IN
    IF h.publisher = NoPublisher
    THEN [t EXCEPT ![h.priceKey].onPrice = {}]
    ELSE [t EXCEPT ![h.priceKey].componentCallbacks[h.publisher] = {}]

Deleted(t, id) ==
    LET h == handles[id] IN
    IF h.publisher = NoPublisher
    THEN [t EXCEPT ![h.priceKey].onPrice = @ \ {id}]
    ELSE [t EXCEPT ![h.priceKey].componentCallbacks[h.publisher] = @ \ {id}]

\* An Unsubscribe that deletes without taking the lock.
Unsubscribe_NoLock ==
    /\ \E id \in 1..regNonce :
        /\ callbacks' = Deleted(callbacks, id)
        /\ unsubscribed' = unsubscribed \cup {id}
        /\ previousInfo' = [previousInfo EXCEPT ![id] = Nil]
        /\ lastNew' = [lastNew EXCEPT ![id] = Nil]
        /\ lastCurrent' = [lastCurrent EXCEPT ![id] = Nil]
    /\ UNCHANGED <<regNonce, handles, callbacksLock, hpc, cur, slot, visited,
                   picked, updatesClosed, event, invoked, invokedTwice,
                   invokedAfterUnsub>>
    /\ UNCHANGED <<errReturned, streamVars, qVars, cVars>>

\* CallbackHandle.Unsubscribe on a handle that was handed out: lock, delete,
\* unlock, return.  The registration is in no map any more and its fields
\* are gone with it.
Unsubscribe ==
    /\ callbacksLock = "free"
    /\ \E id \in 1..regNonce :
        /\ callbacks' = Deleted(callbacks, id)
        /\ unsubscribed' = unsubscribed \cup {id}
        /\ previousInfo' = [previousInfo EXCEPT ![id] = Nil]
        /\ lastNew' = [lastNew EXCEPT ![id] = Nil]
        /\ lastCurrent' = [lastCurrent EXCEPT ![id] = Nil]
    /\ UNCHANGED <<regNonce, handles, callbacksLock, hpc, cur, slot, visited,
                   picked, updatesClosed, event, invoked, invokedTwice,
                   invokedAfterUnsub>>
    /\ UNCHANGED <<errReturned, streamVars, qVars, cVars>>

\* The registrations processUpdate ranges over at a position of its body:
\* position 0 is the range over callbacks.onPrice, position i the range over
\* compCbs in the component loop's slot i (none for a zero publisher).
CbsAt(t, u, pos) ==
    IF pos = 0 THEN OnPriceOf(t, u.Pubkey)
    ELSE CompCbsOf(t, u.Pubkey, u.Price.Components[pos].Publisher)

\* The next position after pos with a registration to inform;
\* NumComponents + 1 when the body is over.
NextStop(t, u, pos) ==
    LET later == {q \in (pos + 1)..NumComponents : CbsAt(t, u, q) # {}} IN
    IF later = {} THEN NumComponents + 1
    ELSE CHOOSE q \in later : \A r \in later : q <= r

\* consume takes the next update and processUpdate takes the lock.  With no
\* registration to inform, processUpdate runs through and returns.
ProcessUpdateBegin ==
    /\ hpc = "wait"
    /\ ~updatesClosed
    /\ callbacksLock = "free"
    /\ \E u \in Updates :
        LET first == NextStop(callbacks, u, -1) IN
        IF first > NumComponents
        THEN UNCHANGED <<cur, slot, callbacksLock, hpc>>
        ELSE /\ cur' = u
             /\ slot' = first
             /\ callbacksLock' = "held"
             /\ hpc' = "range"
    /\ UNCHANGED <<callbacks, regNonce, previousInfo, handles, visited, picked,
                   updatesClosed, unsubscribed, lastNew, lastCurrent, event, invoked,
                   invokedTwice, invokedAfterUnsub>>
    /\ UNCHANGED <<errReturned, streamVars, qVars, cVars>>

\* "for _, onPrice := range ..." yields a registration of the map.
RangeCallbacks ==
    /\ hpc = "range"
    /\ \E id \in CbsAt(callbacks, cur, slot) \ visited : picked' = id
    /\ hpc' = "inform"
    /\ UNCHANGED <<callbacks, regNonce, previousInfo, handles, callbacksLock,
                   cur, slot, visited, updatesClosed, unsubscribed, lastNew, lastCurrent,
                   event, invoked, invokedTwice, invokedAfterUnsub>>
    /\ UNCHANGED <<errReturned, streamVars, qVars, cVars>>

\* callbackRegistration.inform(acc, newInfo) on the registration yielded,
\* and processUpdate's way to the next registration or to its end.
inform ==
    /\ hpc = "inform"
    /\ LET newInfo == IF slot = 0 THEN cur.Price.Agg ELSE CompVar.Latest
           fired == HasChanged(Deref(previousInfo[picked]), newInfo)
       IN
        /\ previousInfo' = [previousInfo EXCEPT ![picked] =
                               IF slot = 0 THEN newInfo ELSE LoopVar]
        /\ event' = [id |-> picked,
                     kind |-> IF slot = 0 THEN "price" ELSE "comp",
                     fired |-> fired,
                     prev |-> lastNew[picked],
                     new |-> newInfo,
                     PreviousInfo |-> Deref(previousInfo[picked]),
                     lastCurrent |-> lastCurrent[picked]]
        /\ lastNew' = [lastNew EXCEPT ![picked] = newInfo]
        /\ lastCurrent' = IF fired
                          THEN [lastCurrent EXCEPT ![picked] = newInfo]
                          ELSE lastCurrent
        /\ invoked' = IF fired THEN invoked \cup {picked} ELSE invoked
        /\ invokedTwice' = (invokedTwice \/ (fired /\ picked \in invoked))
        /\ invokedAfterUnsub' =
               (invokedAfterUnsub \/ (fired /\ picked \in unsubscribed))
    /\ picked' = 0
    /\ IF CbsAt(callbacks, cur, slot) \ (visited \cup {picked}) # {}
       THEN /\ visited' = visited \cup {picked}
            /\ slot' = slot
            /\ hpc' = "range"
       ELSE /\ visited' = {}
            /\ slot' = NextStop(callbacks, cur, slot)
            /\ hpc' = IF NextStop(callbacks, cur, slot) > NumComponents
                      THEN "end" ELSE "range"
    /\ UNCHANGED <<callbacks, regNonce, handles, callbacksLock, cur,
                   updatesClosed, unsubscribed>>
    /\ UNCHANGED <<errReturned, streamVars, qVars, cVars>>

\* processUpdate returns: the lock is released.  The loop variable keeps the
\* copy of the last slot, which the pointers to it read from now on.
ProcessUpdateEnd ==
    /\ hpc = "end"
    /\ previousInfo' = [i \in Ids |->
            IF previousInfo[i] = LoopVar THEN FinalCompVar.Latest
            ELSE previousInfo[i]]
    /\ callbacksLock' = "free"
    /\ hpc' = "wait"
    /\ cur' = Nil
    /\ slot' = 0
    /\ event' = Nil
    /\ invoked' = {}
    /\ UNCHANGED <<callbacks, regNonce, handles, visited, picked, updatesClosed,
                   unsubscribed, lastNew, lastCurrent, invokedTwice, invokedAfterUnsub>>
    /\ UNCHANGED <<errReturned, streamVars, qVars, cVars>>

\* The underlying stream closes its updates channel.
StreamCloses ==
    /\ ~updatesClosed
    /\ updatesClosed' = TRUE
    /\ UNCHANGED <<callbacks, regNonce, previousInfo, handles, callbacksLock,
                   hpc, cur, slot, visited, picked, unsubscribed, lastNew, lastCurrent,
                   event, invoked, invokedTwice, invokedAfterUnsub>>
    /\ UNCHANGED <<errReturned, streamVars, qVars, cVars>>

\* consume: "for update := range updates" ends and consume returns.
consume_Return ==
    /\ hpc = "wait"
    /\ updatesClosed
    /\ hpc' = "done"
    /\ UNCHANGED <<callbacks, regNonce, previousInfo, handles, callbacksLock,
                   cur, slot, visited, picked, updatesClosed, unsubscribed,
                   lastNew, lastCurrent, event, invoked, invokedTwice, invokedAfterUnsub>>
    /\ UNCHANGED <<errReturned, streamVars, qVars, cVars>>

\* PriceEventHandler.Err: p.stream.Err() blocks until the stream has closed,
\* then returns.
Err ==
    /\ updatesClosed
    /\ ~errReturned
    /\ errReturned' = TRUE
    /\ UNCHANGED <<callbacks, regNonce, previousInfo, handles, callbacksLock,
                   hpc, cur, slot, visited, picked, updatesClosed, unsubscribed,
                   lastNew, lastCurrent, event, invoked, invokedTwice, invokedAfterUnsub>>
    /\ UNCHANGED <<streamVars, qVars, cVars>>

HandlerNext ==
    \/ OnPriceChange
    \/ OnComponentChange
    \/ Unsubscribe
    \/ ProcessUpdateBegin
    \/ RangeCallbacks
    \/ inform
    \/ ProcessUpdateEnd
    \/ StreamCloses
    \/ consume_Return
    \/ Err

\* The diff the dispatcher is to apply between the info of the previous
\* update dispatched to a subscriber and the info of this one.
DiffFires(prev, new) ==
    prev = Nil \/ prev.Status # new.Status \/ prev.PubSlot # new.PubSlot

\* C7: an aggregate subscriber's callback is invoked on an update iff the
\* update is the first one dispatched to that subscriber or the aggregate's
\* status or publishing slot differs from that of the previous update
\* dispatched to it; a change of price or confidence alone never invokes it.
C7_AggregateDiff ==
    (event # Nil /\ event.kind = "price")
        => (event.fired = TRUE <=> DiffFires(event.prev, event.new))

\* C7 witness: an update that changes only the price and the confidence of
\* the aggregate was dispatched to a subscriber and did not invoke it.
C7_Witness ==
    /\ event # Nil
    /\ event.kind = "price"
    /\ event.fired = FALSE
    /\ event.prev # Nil
    /\ event.prev.Price # event.new.Price
    /\ event.prev.Conf # event.new.Conf

\* C8: a component subscriber's callback is invoked on an update iff the
\* update is the first one dispatched to that subscriber or the publisher's
\* latest status or publishing slot differs from that of the previous update
\* dispatched to it, whatever the other component slots hold.
C8_ComponentDiff ==
    (event # Nil /\ event.kind = "comp")
        => (event.fired = TRUE <=> DiffFires(event.prev, event.new))

\* C9: dispatch holds the lock and Unsubscribe cannot run meanwhile; the
\* callback of a handle is never invoked after Unsubscribe on it has
\* returned, and never twice for one update.
C9_UnsubscribeExcludesDispatch ==
    /\ hpc \in {"range", "inform", "end"}
          => (callbacksLock = "held" /\ ~ENABLED Unsubscribe)
    /\ ~invokedAfterUnsub
    /\ ~invokedTwice

\* C9 witness: the dispatch of an update is about to inform a registration
\* while Unsubscribe is kept out, and a handle registered for the very same
\* target has been unsubscribed before.
C9_Witness ==
    /\ hpc = "inform"
    /\ ~ENABLED Unsubscribe
    /\ \E id \in unsubscribed :
        /\ id # picked
        /\ handles[id] = handles[picked]

\* C29: whenever a callback is invoked, the PreviousInfo it is handed is
\* absent on the first invocation of that callback and otherwise equals the
\* CurrentInfo of the previous invocation of that same callback.
C29_PreviousIsLastDelivered ==
    (event # Nil /\ event.fired = TRUE)
        => event.PreviousInfo = event.lastCurrent

\* An update u is addressed to registration id: id is registered under
\* u's price key, for the aggregate or for a non-zero publisher that holds
\* a component slot of u's account.
Addressed(id, u) ==
    /\ handles[id] # Nil
    /\ handles[id].priceKey = u.Pubkey
    /\ \/ handles[id].publisher = NoPublisher
       \/ /\ handles[id].publisher # ZeroKey
          /\ \E i \in 1..NumComponents :
                u.Price.Components[i].Publisher = handles[id].publisher

\* C31: while an update is dispatched, only registrations it is addressed
\* to are yielded and invoked; every other registration is not invoked and
\* keeps its last-seen value, and the dispatch adds no entry to the table.
C31_DispatchFrame ==
    [][cur # Nil =>
         /\ picked' # 0 => Addressed(picked', cur)
         /\ \A id \in Ids :
              ~Addressed(id, cur) =>
                 /\ previousInfo'[id] = previousInfo[id]
                 /\ lastNew'[id] = lastNew[id]
                 /\ lastCurrent'[id] = lastCurrent[id]
                 /\ id \in invoked' => id \in invoked
         /\ callbacks' = callbacks]_vars

\* C31 witness: a registration under another price key, which holds a
\* last-seen value, is registered while an update is being dispatched to a
\* registration it is addressed to.
C31_Witness ==
    /\ hpc = "inform"
    /\ Addressed(picked, cur)
    /\ \E id \in Registered(callbacks) :
        /\ handles[id].priceKey # cur.Pubkey
        /\ previousInfo[id] # Nil

\* C38: the registrations in the table are at all times those handed out
\* and not unsubscribed, so that an Unsubscribe removes the registration of
\* its handle and no other, and a repeated one removes nothing; it leaves
\* the last-seen value of every registration that stays as it is; and the
\* keys of the handles only grow,
\* a new one being larger than every key handed out before.
C38_UnsubscribeRemovesOne ==
    [][/\ Registered(callbacks') = (1..regNonce') \ unsubscribed'
       /\ unsubscribed' # unsubscribed =>
             /\ Registered(callbacks) \ Registered(callbacks')
                   = unsubscribed' \ unsubscribed
             /\ UNCHANGED <<handles, regNonce>>
             /\ \A id \in Registered(callbacks') :
                   /\ previousInfo'[id] = previousInfo[id]
                   /\ lastNew'[id] = lastNew[id]
                   /\ lastCurrent'[id] = lastCurrent[id]
       /\ regNonce' >= regNonce
       /\ regNonce' # regNonce =>
             /\ regNonce' = regNonce + 1
             /\ handles[regNonce'] = Nil
             /\ \A id \in 1..regNonce : handles'[id] = handles[id]]_vars

\* C38 witness: of two registrations for the same target, the first has
\* been unsubscribed and the second is registered and holds a last-seen
\* value.
C38_Witness ==
    /\ regNonce = 2
    /\ handles[1] = handles[2]
    /\ unsubscribed = {1}
    /\ Registered(callbacks) = {2}
    /\ previousInfo[2] # Nil

\* C37: a callback that is being dispatched can call Unsubscribe,
\* OnPriceChange or OnComponentChange on its own handler and the call
\* completes: while inform is about to run the callback of a registration,
\* each of these calls can take its step.
C37_CallbackMayCallHandler ==
    hpc = "inform" =>
        /\ ENABLED Unsubscribe
        /\ regNonce < MaxRegs =>
              (ENABLED OnPriceChange /\ ENABLED OnComponentChange)

\* C10: after the consume loop has ended the registration table is empty.
C10_TableEmptyAfterClose ==
    hpc = "done" => Registered(callbacks) = {}

\* C11: after Err has returned, no callback of the handler is invoked.
C11_ErrIsBarrier ==
    [][errReturned => invoked' \subseteq invoked]_vars

---------------------------------------------------------------------------
(* Part III: the account queries                                           *)

\* No query is running.
QueryIdle ==
    /\ qOp = "idle"
    /\ qChain = Nil
    /\ qNum = Nil
    /\ qBad = Nil
    /\ qBatch = 1
    /\ qStart = <<>>
    /\ qQueue = <<>>
    /\ qI = 0
    /\ qSeen = {}
    /\ qAccs = <<>>
    /\ qpc = "idle"
    /\ qErr = "none"
    /\ qRet = <<>>
    /\ qFetches = 0
    /\ qRequested = <<>>

\* The mapping accounts on chain.
MappingKeys == {"M1", "M2"}

\* const maxAccounts in GetAllProductKeys.
maxAccounts == 128

\* MappingAccount.Products of the mapping account under key k.
Products(k) == [i \in 1..NumProducts |-> <<k, i>>]

\* MappingAccount.ProductKeys
ProductKeys(k) ==
    IF qNum[k] > NumProducts THEN <<>>
    ELSE SubSeq(Products(k), 1, qNum[k])

\* A loop condition of GetAllProductKeys without the cap.
LoopContinues_NoCap(i, next) == next # ZeroKey

\* The loop condition of GetAllProductKeys.
LoopContinues(i, next) == i < maxAccounts /\ next # ZeroKey

\* GetAllProductKeys is called: next := c.Env.Mapping, and the first test of
\* the loop condition.
GetAllProductKeysInit ==
    /\ qOp = "keys"
    /\ qChain \in [MappingKeys -> MappingKeys \cup {ZeroKey}]
    /\ qNum \in [MappingKeys -> 0..(NumProducts + 1)]
    /\ qBad = Nil
    /\ qBatch = 1
    /\ qStart \in {<<k>> : k \in MappingKeys \cup {ZeroKey}}
    /\ qQueue = qStart
    /\ qI = 0
    /\ qSeen = {}
    /\ qAccs = <<>>
    /\ qpc = IF LoopContinues(0, qStart[1]) THEN "loop" ELSE "done"
    /\ qErr = "none"
    /\ qRet = <<>>
    /\ qFetches = 0
    /\ qRequested = <<>>

\* One iteration of the loop of GetAllProductKeys: GetMappingAccount(next)
\* fails, or its product keys are appended and next moves on; then the loop
\* condition, and the return when it fails.
GetAllProductKeys ==
    /\ qOp = "keys"
    /\ qpc = "loop"
    /\ qFetches' = qFetches + 1
    /\ qRequested' = Append(qRequested, [key |-> qQueue[1], fetch |-> qFetches + 1])
    /\ \E err \in {"none", "rpc", "decode"} :
        IF err # "none"
        THEN /\ qpc' = "error"
             /\ qErr' = err
             /\ qRet' = qAccs
             /\ UNCHANGED <<qAccs, qQueue, qI>>
        ELSE LET next == qChain[qQueue[1]]
                 products == qAccs \o ProductKeys(qQueue[1])
             IN
             /\ qAccs' = products
             /\ qQueue' = <<next>>
             /\ qI' = qI + 1
             /\ IF LoopContinues(qI + 1, next)
                THEN /\ qpc' = "loop"
                     /\ UNCHANGED <<qErr, qRet>>
                ELSE /\ qpc' = "done"
                     /\ qErr' = "none"
                     /\ qRet' = products
    /\ UNCHANGED <<qOp, qChain, qNum, qBad, qBatch, qStart, qSeen>>
    /\ UNCHANGED <<streamVars, hVars, cVars>>

\* The product keys of the first n mapping accounts of the list from key k.
RECURSIVE MappingWalk(_, _)
MappingWalk(k, n) ==
    IF k = ZeroKey \/ n = 0 THEN <<>>
    ELSE ProductKeys(k) \o MappingWalk(qChain[k], n - 1)

\* C14: GetAllProductKeys fetches at most 128 mapping accounts, goes on until
\* the next key is zero or 128 accounts are fetched, and then returns the
\* product keys of the accounts of the list from the root, in list order.
C14_MappingWalkCapped ==
    qOp = "keys" =>
        /\ qFetches <= maxAccounts
        /\ qpc # "error" => qFetches = qI
        /\ qpc = "loop" => qQueue[1] # ZeroKey
        /\ qpc = "done" =>
            /\ qQueue[1] = ZeroKey \/ qFetches = maxAccounts
            /\ qErr = "none"
            /\ qRet = MappingWalk(qStart[1], maxAccounts)

\* C14 witness: the next keys form a cycle and the call has returned after
\* 128 fetches with the product keys it found on the way.
C14_Witness ==
    /\ qOp = "keys"
    /\ qpc = "done"
    /\ qFetches = maxAccounts
    /\ qQueue[1] # ZeroKey
    /\ Len(qRet) > maxAccounts

\* The price accounts on chain.
PriceAccountKeys == {"A", "B", "C"}

\* The most keys a call starts from, and the largest page size.
MaxStart == 2
MaxBatch == 2

\* Sequences of at most n keys.
KeyLists(keys, n) == UNION {[1..m -> keys] : m \in 0..n}

\* What may be wrong with the data on chain: nothing, or one key is answered
\* with data that does not decode, or with no account at all (a nil item).
BadChoices ==
    {[key |-> ZeroKey, kind |-> "ok"]} \cup
    [key : PriceAccountKeys, kind : {"undecodable", "missing"}]

\* res.Value[i] is nil: info.Data dereferences a nil pointer.
IsNilItem(k) == qBad.key = k /\ qBad.kind = "missing"

\* An UnmarshalBinary that accepts any data.
DecodeFails_Never(k) == FALSE

\* acc.UnmarshalBinary(accountData) returns an error.
DecodeFails(k) == qBad.key = k /\ qBad.kind = "undecodable"

\* The next block of keys from the list, and the list left.
NextBlock(keys) ==
    IF Len(keys) > qBatch THEN SubSeq(keys, 1, qBatch) ELSE keys
RestKeys(keys) ==
    IF Len(keys) > qBatch THEN SubSeq(keys, qBatch + 1, Len(keys)) ELSE <<>>

\* An enqueue test that leaves out the seen set.
Enqueue_NoSeen(seen, next) == next # ZeroKey

\* getPriceAccountsPage: is acc.Next appended to the keys to fetch?
Enqueue(seen, next) == next \notin seen /\ next # ZeroKey

\* An entry that takes the key of the successor for its own.
PriceAccountEntry_NextKey(key, next, resSlot) ==
    [Pubkey |-> next, Next |-> next, Slot |-> resSlot]

\* PriceAccountEntry{PriceAccount: acc, Pubkey: nextKeys[i], Slot: ...}
PriceAccountEntry(key, next, resSlot) ==
    [Pubkey |-> key, Next |-> next, Slot |-> resSlot]

\* The loop over res.Value in getPriceAccountsPage, from item i on.
RECURSIVE PricePageItems(_, _, _, _)
PricePageItems(i, nextKeys, resSlot, st) ==
    IF i > Len(nextKeys) THEN st
    ELSE IF IsNilItem(nextKeys[i]) THEN [st EXCEPT !.err = "panic"]
    ELSE IF DecodeFails(nextKeys[i]) THEN [st EXCEPT !.err = "decode"]
    ELSE LET next == qChain[nextKeys[i]]
             enq == Enqueue(st.seen, next)
         IN PricePageItems(i + 1, nextKeys, resSlot,
                [accs |-> Append(st.accs, PriceAccountEntry(nextKeys[i], next, resSlot)),
                 allKeys |-> IF enq THEN Append(st.allKeys, next) ELSE st.allKeys,
                 seen |-> IF enq THEN st.seen \cup {next} ELSE st.seen,
                 err |-> "none"])

\* GetPriceAccountsRecursive is called.
GetPriceAccountsRecursiveInit ==
    /\ qOp = "prices"
    /\ qChain \in [PriceAccountKeys -> PriceAccountKeys \cup {ZeroKey}]
    /\ qNum = Nil
    /\ qBad \in BadChoices
    /\ qBatch \in 1..MaxBatch
    /\ qStart \in KeyLists(PriceAccountKeys, MaxStart)
    /\ qQueue = qStart
    /\ qI = 0
    /\ qSeen = {}
    /\ qAccs = <<>>
    /\ qpc = IF Len(qStart) > 0 THEN "loop" ELSE "done"
    /\ qErr = "none"
    /\ qRet = <<>>
    /\ qFetches = 0
    /\ qRequested = <<>>

\* The keys of a request, each with the number of the request.
Requests(keys, n) == [i \in 1..Len(keys) |-> [key |-> keys[i], fetch |-> n]]

\* One iteration of the loop of GetPriceAccountsRecursive: the next block is
\* cut off the list, getPriceAccountsPage fetches and decodes it, and the
\* call returns on an error or when no key is left.
GetPriceAccountsRecursive ==
    /\ qOp = "prices"
    /\ qpc = "loop"
    /\ qFetches' = qFetches + 1
    /\ qRequested' = qRequested \o Requests(NextBlock(qQueue), qFetches + 1)
    /\ \E rpcErr \in {"none", "rpc", "count"} :
        LET st == IF rpcErr # "none"
                  THEN [accs |-> qAccs, allKeys |-> RestKeys(qQueue),
                        seen |-> qSeen, err |-> rpcErr]
                  ELSE PricePageItems(1, NextBlock(qQueue), qFetches + 1,
                           [accs |-> qAccs, allKeys |-> RestKeys(qQueue),
                            seen |-> qSeen, err |-> "none"])
        IN
        /\ qAccs' = st.accs
        /\ qQueue' = st.allKeys
        /\ qSeen' = st.seen
        /\ qErr' = st.err
        /\ qpc' = IF st.err = "panic" THEN "panic"
                  ELSE IF st.err # "none" THEN "error"
                  ELSE IF Len(st.allKeys) > 0 THEN "loop" ELSE "done"
        /\ qRet' = IF st.err = "panic" \/ (st.err = "none" /\ Len(st.allKeys) > 0)
                   THEN qRet ELSE st.accs
    /\ UNCHANGED <<qOp, qChain, qNum, qBad, qBatch, qStart, qI>>
    /\ UNCHANGED <<streamVars, hVars, cVars>>

\* The distinct non-zero next keys of the accounts on chain.
NextKeysOnChain == {qChain[k] : k \in DOMAIN qChain} \ {ZeroKey}

\* C13: GetPriceAccountsRecursive requests at most as many accounts as it
\* has start keys plus distinct non-zero next keys, every request asks for
\* at least one of them, and the loop never stops short of its return:
\* the call ends after a bounded number of requests, cycles or not.
C13_PriceWalkTerminates ==
    qOp = "prices" =>
        /\ Len(qRequested) <= Len(qStart) + Cardinality(NextKeysOnChain)
        /\ qFetches <= Len(qRequested)
        /\ Len(qRequested) + Len(qQueue) <= Len(qStart) + Cardinality(qSeen)
        /\ qSeen \subseteq NextKeysOnChain
        /\ qpc = "loop" => (Len(qQueue) > 0 /\ ENABLED GetPriceAccountsRecursive)

\* C13 witness: the next keys form a cycle through a start key, and the call
\* has returned after fetching the start key a second time.
C13_Witness ==
    /\ qOp = "prices"
    /\ qpc = "done"
    /\ Len(qStart) > 0
    /\ \E i \in 2..Len(qRet) : qRet[i].Pubkey = qStart[1] /\ qRet[i].Next # ZeroKey
    /\ Len(qRet) = Len(qStart) + Cardinality(NextKeysOnChain)

\* The accounts reachable from the keys of S by at most n non-zero next keys.
RECURSIVE ReachFrom(_, _)
ReachFrom(S, n) ==
    IF n = 0 THEN S
    ELSE ReachFrom(S \cup ({qChain[k] : k \in S} \ {ZeroKey}), n - 1)

\* C16: when GetPriceAccountsRecursive returns without error, it returns an
\* entry for every start key and every account reachable from one by
\* non-zero next keys, and the entries are, in order, the keys it requested,
\* each with the account found under it and the slot of its response.
C16_PriceWalkComplete ==
    (qOp = "prices" /\ qpc = "done") =>
        /\ qErr = "none"
        /\ {qRet[i].Pubkey : i \in 1..Len(qRet)}
              = ReachFrom({qStart[i] : i \in 1..Len(qStart)},
                          Cardinality(PriceAccountKeys))
        /\ Len(qRet) = Len(qRequested)
        /\ \A i \in 1..Len(qRet) :
            /\ qRet[i].Pubkey = qRequested[i].key
            /\ qRet[i].Next = qChain[qRequested[i].key]
            /\ qRet[i].Slot = qRequested[i].fetch

\* C16 witness: from one start key the call has followed a chain through
\* every account, one page per account, and returned them all.
C16_Witness ==
    /\ qOp = "prices"
    /\ qpc = "done"
    /\ Len(qStart) = 1
    /\ Len(qRet) = Cardinality(PriceAccountKeys)
    /\ qRet[Len(qRet)].Next = ZeroKey
    /\ qRet[Len(qRet)].Slot = Len(qRet)

\* The product accounts on chain.
ProductAccountKeys == {"X", "Y"}

\* What may be wrong with the data of a product account.
ProductBadChoices ==
    {[key |-> ZeroKey, kind |-> "ok"]} \cup
    [key : ProductAccountKeys, kind : {"undecodable", "missing"}]

\* What GetAllProductKeys hands to GetAllProductAccounts: keys and an error.
ProductKeysResults ==
    [keys : KeyLists(ProductAccountKeys, MaxStart + 1), err : {"none", "rpc"}]

\* ProductAccountEntry{ProductAccount: acc, Pubkey: keys[i], Slot: ...}
ProductAccountEntry(key, resSlot) == [Pubkey |-> key, Slot |-> resSlot]

\* The loop over res.Value in getProductAccountsPage, from item i on.
RECURSIVE ProductPageItems(_, _, _, _)
ProductPageItems(i, keys, resSlot, st) ==
    IF i > Len(keys) THEN st
    ELSE IF IsNilItem(keys[i]) THEN [st EXCEPT !.err = "panic"]
    ELSE IF DecodeFails(keys[i]) THEN [st EXCEPT !.err = "decode"]
    ELSE ProductPageItems(i + 1, keys, resSlot,
            [accs |-> Append(st.accs, ProductAccountEntry(keys[i], resSlot)),
             err |-> "none"])

\* GetAllProductAccounts is called and has the result of GetAllProductKeys:
\* on an error it returns nil and the error.
GetAllProductAccountsInit ==
    /\ qOp = "products"
    /\ qChain = Nil
    /\ qNum = Nil
    /\ qBad \in ProductBadChoices
    /\ qBatch \in 1..MaxBatch
    /\ \E r \in ProductKeysResults :
        /\ qStart = r.keys
        /\ qQueue = r.keys
        /\ qErr = r.err
        /\ qpc = IF r.err # "none" THEN "error"
                 ELSE IF Len(r.keys) > 0 THEN "loop" ELSE "done"
    /\ qI = 0
    /\ qSeen = {}
    /\ qAccs = <<>>
    /\ qRet = <<>>
    /\ qFetches = 0
    /\ qRequested = <<>>

\* One iteration of the loop of GetAllProductAccounts: the next block is cut
\* off the list, getProductAccountsPage fetches and decodes it, and the call
\* returns on an error or when no key is left.
GetAllProductAccounts ==
    /\ qOp = "products"
    /\ qpc = "loop"
    /\ qFetches' = qFetches + 1
    /\ qRequested' = qRequested \o Requests(NextBlock(qQueue), qFetches + 1)
    /\ qQueue' = RestKeys(qQueue)
    /\ \E rpcErr \in {"none", "rpc", "count"} :
        LET st == IF rpcErr # "none"
                  THEN [accs |-> qAccs, err |-> rpcErr]
                  ELSE ProductPageItems(1, NextBlock(qQueue), qFetches + 1,
                           [accs |-> qAccs, err |-> "none"])
        IN
        /\ qAccs' = st.accs
        /\ qErr' = st.err
        /\ qpc' = IF st.err = "panic" THEN "panic"
                  ELSE IF st.err # "none" THEN "error"
                  ELSE IF Len(RestKeys(qQueue)) > 0 THEN "loop" ELSE "done"
        /\ qRet' = IF st.err = "panic"
                      \/ (st.err = "none" /\ Len(RestKeys(qQueue)) > 0)
                   THEN qRet ELSE st.accs
    /\ UNCHANGED <<qOp, qChain, qNum, qBad, qBatch, qStart, qI, qSeen>>
    /\ UNCHANGED <<streamVars, hVars, cVars>>

\* The data on chain under key k does not decode.
Malformed(k) == qBad.key = k /\ qBad.kind = "undecodable"

\* How many keys were requested before the latest request.
RequestedBefore ==
    Cardinality({i \in 1..Len(qRequested) : qRequested[i].fetch < qFetches})

---------------------------------------------------------------------------
(* Part IV: instructions and their binary form                             *)

\* No conversion is under way.
CodecIdle ==
    /\ cOp = "idle"
    /\ cIn = Nil
    /\ cIns = Nil
    /\ cData = Nil
    /\ cDec = Nil
    /\ cpc = "idle"

\* The little-endian bytes of an integer on w bytes (two's complement).
RECURSIVE LEBytes(_, _)
LEBytes(v, w) ==
    IF w = 0 THEN <<>> ELSE <<v % 256>> \o LEBytes(v \div 256, w - 1)

\* The unsigned integer of little-endian bytes.
RECURSIVE FromLE(_)
FromLE(b) ==
    IF Len(b) = 0 THEN 0 ELSE b[1] + 256 * FromLE(Tail(b))

\* The signed integer of little-endian bytes.
FromLESigned(b) ==
    IF b[Len(b)] >= 128
    THEN -1 - FromLE([i \in 1..Len(b) |-> 255 - b[i]])
    ELSE FromLE(b)

\* Pyth program instructions.
Instruction_InitMapping == 0
Instruction_AddMapping == 1
Instruction_AddProduct == 2
Instruction_UpdProduct == 3
Instruction_AddPrice == 4
Instruction_AddPublisher == 5
Instruction_DelPublisher == 6
Instruction_UpdPrice == 7
Instruction_UpdPriceNoFailOnError == 8
Instruction_AggPrice == 9
Instruction_InitPrice == 10
Instruction_InitTest == 11
Instruction_UpdTest == 12
Instruction_SetMinPub == 13
instruction_count == 14

\* The number of bytes of a public key (32 on chain).
PublicKeyLength == 2

\* The public keys used as accounts and publishers.
PublicKeys == {[i \in 1..PublicKeyLength |-> b] : b \in {1, 2}}

SysVarClockPubkey == [i \in 1..PublicKeyLength |-> 9]

ProgramKey == [i \in 1..PublicKeyLength |-> 7]

\* CommandHeader.Valid
Valid_NoUpperBound(h) == h.Version = V2 /\ h.Cmd >= 0

Valid(h) == h.Version = V2 /\ h.Cmd >= 0 /\ h.Cmd < instruction_count

makeCommandHeader(cmd) == [Version |-> V2, Cmd |-> cmd]

\* One field of a payload struct: its width in bytes, its signedness and,
\* for an array, its number of elements (0 for a scalar).
Field(name, width, signed, count) ==
    [name |-> name, width |-> width, signed |-> signed, count |-> count]

\* The fields of the payload structs, in declaration order.
Layout(type) ==
    CASE type = "CommandHeader" ->
           <<Field("Version", 4, FALSE, 0), Field("Cmd", 4, TRUE, 0)>>
      [] type \in {"CommandAddPrice", "CommandInitPrice"} ->
           <<Field("Exponent", 4, TRUE, 0), Field("PriceType", 4, FALSE, 0)>>
      [] type = "CommandSetMinPub" ->
           <<Field("MinPub", 1, FALSE, 0)>>
      [] type \in {"CommandAddPublisher", "CommandDelPublisher"} ->
           <<Field("Publisher", 1, FALSE, PublicKeyLength)>>
      [] type = "CommandUpdPrice" ->
           <<Field("Status", 4, FALSE, 0), Field("Unused", 4, FALSE, 0),
             Field("Price", 8, TRUE, 0), Field("Conf", 8, FALSE, 0),
             Field("PubSlot", 8, FALSE, 0)>>
      [] type = "CommandUpdTest" ->
           <<Field("Exponent", 4, TRUE, 0),
             Field("SlotDiff", 1, TRUE, NumComponents),
             Field("Price", 8, TRUE, NumComponents),
             Field("Conf", 8, FALSE, NumComponents)>>

\* The number of bytes a field takes.
FieldSize(f) == IF f.count = 0 THEN f.width ELSE f.width * f.count

\* The number of bytes the fields from the i-th on take.
RECURSIVE LayoutSize(_, _)
LayoutSize(layout, i) ==
    IF i > Len(layout) THEN 0
    ELSE FieldSize(layout[i]) + LayoutSize(layout, i + 1)

\* The encoder's bytes of an array, element by element.
RECURSIVE EncodeArray(_, _, _)
EncodeArray(f, v, i) ==
    IF i > f.count THEN <<>>
    ELSE LEBytes(v[i], f.width) \o EncodeArray(f, v, i + 1)

EncodeField(f, v) ==
    IF f.count = 0 THEN LEBytes(v, f.width) ELSE EncodeArray(f, v, 1)

\* bin.Encoder.Encode of a struct: its fields in order, little-endian.
RECURSIVE EncodeStruct(_, _, _)
EncodeStruct(layout, fields, i) ==
    IF i > Len(layout) THEN <<>>
    ELSE EncodeField(layout[i], fields[layout[i].name])
             \o EncodeStruct(layout, fields, i + 1)

DecodeInt(f, b) == IF f.signed THEN FromLESigned(b) ELSE FromLE(b)

\* The value of the field that starts at byte pos of data.
DecodeField(f, data, pos) ==
    IF f.count = 0
    THEN DecodeInt(f, SubSeq(data, pos, pos + f.width - 1))
    ELSE [i \in 1..f.count |->
             DecodeInt(f, SubSeq(data, pos + (i - 1) * f.width,
                                 pos + i * f.width - 1))]

\* The byte at which the i-th field of the layout starts.
FieldPos(layout, i, pos) ==
    pos + LayoutSize(layout, 1) - LayoutSize(layout, i)

\* bin.Decoder.Decode of a struct from byte pos on; the caller has checked
\* that enough bytes are left.
DecodeStruct(layout, data, pos) ==
    [n \in {layout[i].name : i \in 1..Len(layout)} |->
        LET i == CHOOSE k \in 1..Len(layout) : layout[k].name = n
        IN  DecodeField(layout[i], data, FieldPos(layout, i, pos))]


\* writeLPString: the length byte, then the bytes of the string.
writeLPString(s) ==
    IF Len(s) > 255 THEN [bytes |-> <<>>, err |-> "string too long"]
    ELSE [bytes |-> <<Len(s)>> \o s, err |-> NoError]

\* readLPString from byte pos of data on.  bytes.Reader.Read reports EOF
\* when nothing is left, even for an empty buffer, and otherwise copies
\* what is there without an error; the rest of the buffer stays zero.
readLPString(data, pos) ==
    IF pos > Len(data)
    THEN [s |-> <<>>, n |-> 0, err |-> "EOF", pos |-> pos]
    ELSE LET strLen == data[pos]
             left == Len(data) - pos
             got == IF strLen < left THEN strLen ELSE left
         IN  IF left = 0
             THEN [s |-> [i \in 1..strLen |-> 0], n |-> 1, err |-> "EOF",
                   pos |-> pos + 1]
             ELSE [s |-> [i \in 1..strLen |->
                             IF i <= got THEN data[pos + i] ELSE 0],
                   n |-> got + 1, err |-> NoError, pos |-> pos + 1 + got]

\* unmarshalLPKVs: key and value strings until the reader is empty.
RECURSIVE unmarshalLPKVs(_, _, _, _)
unmarshalLPKVs(data, pos, kvps, n) ==
    IF pos > Len(data) THEN [out |-> kvps, n |-> n, err |-> NoError]
    ELSE LET key == readLPString(data, pos)
         IN  IF key.err # NoError
             THEN [out |-> kvps, n |-> n, err |-> key.err]
             ELSE LET val == readLPString(data, key.pos)
                  IN  IF val.err # NoError
                      THEN [out |-> kvps, n |-> n + key.n, err |-> val.err]
                      ELSE unmarshalLPKVs(data, val.pos,
                                          MapPut(kvps, key.s, val.s),
                                          n + key.n + val.n)

\* The orders in which a range over a Go map may visit its keys.
RangeOrders(m) ==
    {o \in [1..Cardinality(DOMAIN m) -> DOMAIN m] :
        \A i, j \in DOMAIN o : i # j => o[i] # o[j]}

\* marshalLPKVs, visiting the keys in the given order.
RECURSIVE marshalLPKVsInOrder(_, _, _)
marshalLPKVsInOrder(m, order, i) ==
    IF i > Len(order) THEN [bytes |-> <<>>, err |-> NoError]
    ELSE LET k == writeLPString(order[i])
             v == writeLPString(m[order[i]])
             rest == marshalLPKVsInOrder(m, order, i + 1)
         IN  IF k.err # NoError THEN k
             ELSE IF v.err # NoError THEN v
             ELSE IF rest.err # NoError THEN rest
             ELSE [bytes |-> k.bytes \o v.bytes \o rest.bytes, err |-> NoError]

\* marshalLPKVs: every result the map's iteration order allows.
marshalLPKVs(m) == {marshalLPKVsInOrder(m, o, 1) : o \in RangeOrders(m)}

\* CommandUpdProduct.UnmarshalBinary
CommandUpdProduct_UnmarshalBinary(data) ==
    LET r == unmarshalLPKVs(data, 1, EmptyMap, 0)
    IN  IF r.err # NoError THEN [Attrs |-> r.out, err |-> r.err]
        ELSE IF r.n # Len(data)
        THEN [Attrs |-> r.out, err |-> "unmarshalLPKVs: expected bytes"]
        ELSE [Attrs |-> r.out, err |-> NoError]

\* CommandUpdProduct.MarshalBinary
CommandUpdProduct_MarshalBinary(c) == marshalLPKVs(c.Attrs)

\* Instruction.Data: the header, then the payload if there is one.
Data(inst) ==
    LET hdr == EncodeStruct(Layout("CommandHeader"), inst.header, 1)
    IN  IF inst.impl = Nil THEN {[data |-> hdr, err |-> NoError]}
        ELSE IF inst.impl.type = "CommandUpdProduct"
        THEN {IF r.err # NoError
              THEN [data |-> Nil, err |-> "failed to marshal payload"]
              ELSE [data |-> hdr \o r.bytes, err |-> NoError] :
                 r \in CommandUpdProduct_MarshalBinary(inst.impl.fields)}
        ELSE {[data |-> hdr \o EncodeStruct(Layout(inst.impl.type),
                                            inst.impl.fields, 1),
               err |-> NoError]}

\* The commands the decoder's switch has a case for.
Supported(cmd) == cmd \in Instruction_InitMapping..Instruction_SetMinPub

\* The payload struct the decoder's switch allocates ("" for none).
newImpl(cmd) ==
    CASE cmd = Instruction_UpdProduct -> "CommandUpdProduct"
      [] cmd = Instruction_AddPrice -> "CommandAddPrice"
      [] cmd = Instruction_AddPublisher -> "CommandAddPublisher"
      [] cmd = Instruction_DelPublisher -> "CommandDelPublisher"
      [] cmd = Instruction_UpdPrice -> "CommandUpdPrice"
      [] cmd = Instruction_UpdPriceNoFailOnError -> "CommandUpdPrice"
      [] cmd = Instruction_UpdTest -> "CommandUpdTest"
      [] cmd = Instruction_SetMinPub -> "CommandSetMinPub"
      [] OTHER -> ""

\* The number of accounts the decoder's switch expects.
numAccounts(cmd) ==
    CASE cmd = Instruction_InitMapping -> 2
      [] cmd = Instruction_AddMapping -> 3
      [] cmd = Instruction_AddProduct -> 3
      [] cmd = Instruction_UpdProduct -> 3
      [] cmd = Instruction_AddPrice -> 3
      [] cmd = Instruction_AddPublisher -> 2
      [] cmd = Instruction_DelPublisher -> 2
      [] cmd = Instruction_UpdPrice -> 3
      [] cmd = Instruction_UpdPriceNoFailOnError -> 3
      [] cmd = Instruction_AggPrice -> 3
      [] cmd = Instruction_InitPrice -> 2
      [] cmd = Instruction_InitTest -> 2
      [] cmd = Instruction_UpdTest -> 2
      [] cmd = Instruction_SetMinPub -> 2

\* A failed decode: no instruction and an error.
DecodeFailed(text) == [ins |-> Nil, err |-> [msg |-> text]]

\* The decoding of the payload that follows the 8 header bytes.
DecodePayload(type, data) ==
    LET body == SubSeq(data, 9, Len(data))
    IN  IF type = "CommandUpdProduct"
        THEN LET r == CommandUpdProduct_UnmarshalBinary(body)
             IN  IF r.err # NoError
                 THEN [impl |-> Nil, err |-> "while unmarshaling"]
                 ELSE [impl |-> [type |-> type,
                                 fields |-> [Attrs |-> r.Attrs]],
                       err |-> NoError]
        ELSE IF Len(body) < LayoutSize(Layout(type), 1)
        THEN [impl |-> Nil, err |-> "failed to decode"]
        ELSE IF Len(body) > LayoutSize(Layout(type), 1)
        THEN [impl |-> Nil, err |-> "found superfluous bytes"]
        ELSE [impl |-> [type |-> type,
                        fields |-> DecodeStruct(Layout(type), body, 1)],
              err |-> NoError]

\* DecodeInstruction: the header, the validity of the header, the number
\* of accounts, then the payload.
DecodeInstruction(programKey, accounts, data) ==
    IF Len(data) < LayoutSize(Layout("CommandHeader"), 1)
    THEN DecodeFailed("failed to decode header")
    ELSE LET hdr == DecodeStruct(Layout("CommandHeader"), data, 1)
         IN  IF ~Valid(hdr)
             THEN DecodeFailed("not a valid Pyth instruction")
             ELSE IF ~Supported(hdr.Cmd)
             THEN DecodeFailed("unsupported instruction type")
             ELSE IF Len(accounts) # numAccounts(hdr.Cmd)
             THEN [ins |-> Nil,
                   err |-> [msg |-> "expected accounts but got",
                            expected |-> numAccounts(hdr.Cmd),
                            name |-> hdr.Cmd,
                            got |-> Len(accounts)]]
             ELSE IF newImpl(hdr.Cmd) = ""
             THEN [ins |-> [programKey |-> programKey, accounts |-> accounts,
                            header |-> hdr, impl |-> Nil],
                   err |-> Nil]
             ELSE LET p == DecodePayload(newImpl(hdr.Cmd), data)
                  IN  IF p.err # NoError THEN DecodeFailed(p.err)
                      ELSE [ins |-> [programKey |-> programKey,
                                     accounts |-> accounts,
                                     header |-> hdr, impl |-> p.impl],
                            err |-> Nil]


\* solana.Meta and its SIGNER and WRITE modifiers.
Meta(key) == [PublicKey |-> key, IsSigner |-> FALSE, IsWritable |-> FALSE]

SIGNER(meta) == [meta EXCEPT !.IsSigner = TRUE]

WRITE(meta) == [meta EXCEPT !.IsWritable = TRUE]

\* The instruction a builder method returns.
NewInstruction(cmd, accounts, payload) ==
    [programKey |-> ProgramKey, accounts |-> accounts,
     header |-> makeCommandHeader(cmd), impl |-> payload]

\* The methods of InstructionBuilder.
InitMapping(fundingKey, mappingKey) ==
    NewInstruction(Instruction_InitMapping,
        <<WRITE(SIGNER(Meta(fundingKey))), WRITE(SIGNER(Meta(mappingKey)))>>,
        Nil)

AddMapping(fundingKey, tailMappingKey, newMappingKey) ==
    NewInstruction(Instruction_AddMapping,
        <<WRITE(SIGNER(Meta(fundingKey))), WRITE(SIGNER(Meta(tailMappingKey))),
          WRITE(SIGNER(Meta(newMappingKey)))>>,
        Nil)

AddProduct(fundingKey, mappingKey, productKey) ==
    NewInstruction(Instruction_AddProduct,
        <<WRITE(SIGNER(Meta(fundingKey))), WRITE(SIGNER(Meta(mappingKey))),
          WRITE(SIGNER(Meta(productKey)))>>,
        Nil)

UpdProduct(fundingKey, productKey, payload) ==
    NewInstruction(Instruction_UpdProduct,
        <<WRITE(SIGNER(Meta(fundingKey))), WRITE(SIGNER(Meta(productKey)))>>,
        payload)

AddPrice(fundingKey, productKey, priceKey, payload) ==
    NewInstruction(Instruction_AddPrice,
        <<WRITE(SIGNER(Meta(fundingKey))), WRITE(SIGNER(Meta(productKey))),
          WRITE(SIGNER(Meta(priceKey)))>>,
        payload)

AddPublisher(fundingKey, priceKey, payload) ==
    NewInstruction(Instruction_AddPublisher,
        <<WRITE(SIGNER(Meta(fundingKey))), WRITE(SIGNER(Meta(priceKey)))>>,
        payload)

DelPublisher(fundingKey, priceKey, payload) ==
    NewInstruction(Instruction_DelPublisher,
        <<WRITE(SIGNER(Meta(fundingKey))), WRITE(SIGNER(Meta(priceKey)))>>,
        payload)

UpdPrice(fundingKey, priceKey, payload) ==
    NewInstruction(Instruction_UpdPrice,
        <<WRITE(SIGNER(Meta(fundingKey))), WRITE(Meta(priceKey)),
          Meta(SysVarClockPubkey)>>,
        payload)

AggPrice(fundingKey, priceKey) ==
    NewInstruction(Instruction_AggPrice,
        <<WRITE(SIGNER(Meta(fundingKey))), WRITE(Meta(priceKey)),
          Meta(SysVarClockPubkey)>>,
        Nil)

InitPrice(fundingKey, priceKey, payload) ==
    NewInstruction(Instruction_InitPrice,
        <<WRITE(SIGNER(Meta(fundingKey))), WRITE(SIGNER(Meta(priceKey)))>>,
        payload)

InitTest(fundingKey, testKey) ==
    NewInstruction(Instruction_InitTest,
        <<WRITE(SIGNER(Meta(fundingKey))), WRITE(SIGNER(Meta(testKey)))>>,
        Nil)

UpdTest(fundingKey, testKey, payload) ==
    NewInstruction(Instruction_UpdTest,
        <<WRITE(SIGNER(Meta(fundingKey))), WRITE(SIGNER(Meta(testKey)))>>,
        payload)

SetMinPub(fundingKey, priceKey, payload) ==
    NewInstruction(Instruction_SetMinPub,
        <<WRITE(SIGNER(Meta(fundingKey))), WRITE(SIGNER(Meta(priceKey)))>>,
        payload)

\* The strings used as attribute keys and values.
Strings == {<<>>, <<97>>, <<98, 99>>}

\* The Go maps with at most two of these keys.
AttrMaps ==
    UNION {[D -> Strings] : D \in {E \in SUBSET Strings : Cardinality(E) <= 2}}

\* A payload of the given struct type.
Payload(type, fields) == [type |-> type, fields |-> fields]

\* The payloads handed to the builder, by struct type.
Payloads(type) ==
    CASE type = "CommandUpdProduct" ->
           {Payload(type, [Attrs |-> m]) : m \in AttrMaps}
      [] type \in {"CommandAddPrice", "CommandInitPrice"} ->
           {Payload(type, [Exponent |-> e, PriceType |-> 1]) : e \in {-2, 0}}
      [] type \in {"CommandAddPublisher", "CommandDelPublisher"} ->
           {Payload(type, [Publisher |-> k]) : k \in PublicKeys}
      [] type = "CommandUpdPrice" ->
           {Payload(type, [Status |-> 1, Unused |-> 0, Price |-> p,
                           Conf |-> 256, PubSlot |-> s]) :
               p \in {-1, 300}, s \in {0, 70000}}
      [] type = "CommandUpdTest" ->
           {Payload(type, [Exponent |-> -3,
                           SlotDiff |-> [i \in 1..NumComponents |-> -1],
                           Price |-> [i \in 1..NumComponents |-> 1000 * i],
                           Conf |-> [i \in 1..NumComponents |-> c]]) :
               c \in {0, 255}}
      [] type = "CommandSetMinPub" ->
           {Payload(type, [MinPub |-> n]) : n \in {0, 255}}

\* A call of a builder method: its name, its keys and its payload.
Call(op, keys, payload) == [op |-> op, keys |-> keys, payload |-> payload]

\* The builder calls tried.
BuildCalls ==
    {Call(op, keys, Nil) :
        op \in {"InitMapping", "AggPrice", "InitTest"},
        keys \in [1..2 -> PublicKeys]}
    \cup {Call(op, keys, Nil) :
        op \in {"AddMapping", "AddProduct"}, keys \in [1..3 -> PublicKeys]}
    \cup {Call("UpdProduct", keys, p) :
        keys \in [1..2 -> PublicKeys], p \in Payloads("CommandUpdProduct")}
    \cup {Call("AddPrice", keys, p) :
        keys \in [1..3 -> PublicKeys], p \in Payloads("CommandAddPrice")}
    \cup {Call("AddPublisher", keys, p) :
        keys \in [1..2 -> PublicKeys], p \in Payloads("CommandAddPublisher")}
    \cup {Call("DelPublisher", keys, p) :
        keys \in [1..2 -> PublicKeys], p \in Payloads("CommandDelPublisher")}
    \cup {Call("UpdPrice", keys, p) :
        keys \in [1..2 -> PublicKeys], p \in Payloads("CommandUpdPrice")}
    \cup {Call("InitPrice", keys, p) :
        keys \in [1..2 -> PublicKeys], p \in Payloads("CommandInitPrice")}
    \cup {Call("UpdTest", keys, p) :
        keys \in [1..2 -> PublicKeys], p \in Payloads("CommandUpdTest")}
    \cup {Call("SetMinPub", keys, p) :
        keys \in [1..2 -> PublicKeys], p \in Payloads("CommandSetMinPub")}

\* The instruction a builder call returns.
BuildCall(c) ==
    CASE c.op = "InitMapping" -> InitMapping(c.keys[1], c.keys[2])
      [] c.op = "AddMapping" -> AddMapping(c.keys[1], c.keys[2], c.keys[3])
      [] c.op = "AddProduct" -> AddProduct(c.keys[1], c.keys[2], c.keys[3])
      [] c.op = "UpdProduct" -> UpdProduct(c.keys[1], c.keys[2], c.payload)
      [] c.op = "AddPrice" ->
           AddPrice(c.keys[1], c.keys[2], c.keys[3], c.payload)
      [] c.op = "AddPublisher" -> AddPublisher(c.keys[1], c.keys[2], c.payload)
      [] c.op = "DelPublisher" -> DelPublisher(c.keys[1], c.keys[2], c.payload)
      [] c.op = "UpdPrice" -> UpdPrice(c.keys[1], c.keys[2], c.payload)
      [] c.op = "AggPrice" -> AggPrice(c.keys[1], c.keys[2])
      [] c.op = "InitPrice" -> InitPrice(c.keys[1], c.keys[2], c.payload)
      [] c.op = "InitTest" -> InitTest(c.keys[1], c.keys[2])
      [] c.op = "UpdTest" -> UpdTest(c.keys[1], c.keys[2], c.payload)
      [] c.op = "SetMinPub" -> SetMinPub(c.keys[1], c.keys[2], c.payload)

\* The largest number of accounts handed to the decoder.
MaxAccounts == 4

\* The account lists handed to the decoder.
AccountLists ==
    {[i \in 1..n |-> Meta(ProgramKey)] : n \in 0..MaxAccounts}

\* The header fields handed to the decoder: supported and unsupported
\* versions, and commands inside and outside the supported range.
RawHeaders ==
    {[Version |-> v, Cmd |-> c] :
        v \in {1, V2, 3}, c \in (-1..instruction_count) \cup {65534}}

\* The bytes that follow the header: no payload, well-formed payloads and
\* malformed ones, a string shorter than its length byte among them.
RawBodies ==
    {<<>>, <<1>>, <<0, 0, 0, 0, 1, 0, 0, 0>>, <<1, 97, 1, 98>>, <<1, 2>>,
     <<0, 2, 1>>}

\* The data handed to the decoder, a truncated header included.
RawData ==
    {EncodeStruct(Layout("CommandHeader"), h, 1) \o b :
        h \in RawHeaders, b \in RawBodies}
    \cup {<<2, 0, 0>>}

\* A builder call is about to be made.
BuildInit ==
    /\ cOp = "build"
    /\ cIn \in BuildCalls
    /\ cIns = Nil
    /\ cData = Nil
    /\ cDec = Nil
    /\ cpc = "start"

\* Accounts and data are about to be decoded.
DecodeInit ==
    /\ cOp = "decode"
    /\ cIn \in [accounts : AccountLists, data : RawData]
    /\ cIns = Nil
    /\ cData = Nil
    /\ cDec = Nil
    /\ cpc = "start"

\* The builder method is called.
Build ==
    /\ cOp = "build"
    /\ cpc = "start"
    /\ cIns' = BuildCall(cIn)
    /\ cpc' = "built"
    /\ UNCHANGED <<cOp, cIn, cData, cDec>>
    /\ UNCHANGED <<streamVars, hVars, qVars>>

\* The built instruction is encoded.
Encode ==
    /\ cOp = "build"
    /\ cpc = "built"
    /\ \E r \in Data(cIns) : cData' = r
    /\ cpc' = "encoded"
    /\ UNCHANGED <<cOp, cIn, cIns, cDec>>
    /\ UNCHANGED <<streamVars, hVars, qVars>>

\* The encoding of the built instruction is decoded with its accounts.
DecodeBuilt ==
    /\ cOp = "build"
    /\ cpc = "encoded"
    /\ cData.err = NoError
    /\ cDec' = DecodeInstruction(cIns.programKey, cIns.accounts, cData.data)
    /\ cpc' = "decoded"
    /\ UNCHANGED <<cOp, cIn, cIns, cData>>
    /\ UNCHANGED <<streamVars, hVars, qVars>>

\* The given accounts and data are decoded.
DecodeRaw ==
    /\ cOp = "decode"
    /\ cpc = "start"
    /\ cDec' = DecodeInstruction(ProgramKey, cIn.accounts, cIn.data)
    /\ cpc' = "decoded"
    /\ UNCHANGED <<cOp, cIn, cIns, cData>>
    /\ UNCHANGED <<streamVars, hVars, qVars>>

\* Data is called on the instruction the decoder returned.
EncodeDecoded ==
    /\ cOp = "decode"
    /\ cpc = "decoded"
    /\ cDec.ins # Nil
    /\ \E r \in Data(cDec.ins) : cData' = r
    /\ cpc' = "reencoded"
    /\ UNCHANGED <<cOp, cIn, cIns, cDec>>
    /\ UNCHANGED <<streamVars, hVars, qVars>>


\* The largest number of pairs of an attribute list.
MaxPairs == 2

\* The strings used in attribute lists: short ones, the empty one, the
\* longest one a length byte can describe and one that is longer.
AttrStrings == Strings \cup {[i \in 1..255 |-> 120], [i \in 1..256 |-> 120]}

\* AttrsMap: a list of key-value pairs in a stable order, duplicate keys
\* included.
AttrsMaps ==
    {[Pairs |-> ps] :
        ps \in UNION {[1..n -> AttrStrings \X AttrStrings] : n \in 0..MaxPairs}}

\* AttrsMap.MarshalBinary from the i-th pair on.
RECURSIVE AttrsMap_MarshalBinary(_, _)
AttrsMap_MarshalBinary(a, i) ==
    IF i > Len(a.Pairs) THEN [bytes |-> <<>>, err |-> NoError]
    ELSE LET k == writeLPString(a.Pairs[i][1])
             v == writeLPString(a.Pairs[i][2])
             rest == AttrsMap_MarshalBinary(a, i + 1)
         IN  IF k.err # NoError THEN k
             ELSE IF v.err # NoError THEN v
             ELSE IF rest.err # NoError THEN rest
             ELSE [bytes |-> k.bytes \o v.bytes \o rest.bytes, err |-> NoError]

\* ReadAttrsMapFromBinary: key and value strings until the reader is empty.
RECURSIVE ReadAttrsMapFromBinary(_, _, _, _)
ReadAttrsMapFromBinary(data, pos, out, n) ==
    IF pos > Len(data) THEN [out |-> out, n |-> n, err |-> NoError]
    ELSE LET key == readLPString(data, pos)
         IN  IF key.err # NoError
             THEN [out |-> out, n |-> n, err |-> key.err]
             ELSE LET val == readLPString(data, key.pos)
                  IN  IF val.err # NoError
                      THEN [out |-> out, n |-> n + key.n, err |-> val.err]
                      ELSE ReadAttrsMapFromBinary(data, val.pos,
                               [Pairs |-> Append(out.Pairs, <<key.s, val.s>>)],
                               n + key.n + val.n)

\* AttrsMap.UnmarshalBinary
AttrsMap_UnmarshalBinary(data) ==
    LET r == ReadAttrsMapFromBinary(data, 1, [Pairs |-> <<>>], 0)
    IN  [out |-> r.out, err |-> r.err]

\* An attribute list is about to be marshalled.
AttrsInit ==
    /\ cOp = "attrs"
    /\ cIn \in AttrsMaps
    /\ cIns = Nil
    /\ cData = Nil
    /\ cDec = Nil
    /\ cpc = "start"

\* The attribute list is marshalled.
MarshalAttrs ==
    /\ cOp = "attrs"
    /\ cpc = "start"
    /\ cData' = AttrsMap_MarshalBinary(cIn, 1)
    /\ cpc' = "encoded"
    /\ UNCHANGED <<cOp, cIn, cIns, cDec>>
    /\ UNCHANGED <<streamVars, hVars, qVars>>

\* The marshalled bytes are unmarshalled.
UnmarshalAttrs ==
    /\ cOp = "attrs"
    /\ cpc = "encoded"
    /\ cData.err = NoError
    /\ cDec' = AttrsMap_UnmarshalBinary(cData.bytes)
    /\ cpc' = "decoded"
    /\ UNCHANGED <<cOp, cIn, cIns, cData>>
    /\ UNCHANGED <<streamVars, hVars, qVars>>

---------------------------------------------------------------------------
(* Part V: accounts and their binary form                                  *)

\* The attribute bytes ProductAccount.UnmarshalBinary hands to the
\* attribute parser: AttrsData, cut to the size the header gives.
ClippedAttrsData(buf) ==
    LET data == SubSeq(buf, ProductAccountHeaderLen + 1, RawProductAccountLen)
        maxSize == DecodeAccountHeader(buf).Size.lo - ProductAccountHeaderLen
    IN  IF maxSize > 0 /\ Len(data) > maxSize
        THEN SubSeq(data, 1, maxSize)
        ELSE data

\* ProductAccount.UnmarshalBinary
ProductAccount_UnmarshalBinary(buf) ==
    LET e == UnmarshalChecks(buf, RawProductAccountLen, AccountTypeProduct,
                             "not a product account")
    IN  IF e # NoError THEN [err |-> e]
        ELSE LET r == AttrsMap_UnmarshalBinary(ClippedAttrsData(buf))
             IN  [err |-> r.err, Attrs |-> r.out]

\* UnmarshalBinary of the requested kind of account.
UnmarshalBinary(kind, buf) ==
    CASE kind = "price" -> PriceAccount_UnmarshalBinary(buf)
      [] kind = "mapping" -> MappingAccount_UnmarshalBinary(buf)
      [] kind = "product" -> ProductAccount_UnmarshalBinary(buf)

\* An account header with the given fields.
AccountHeader(magic, version, type, size) ==
    [Magic |-> magic, Version |-> version, AccountType |-> type, Size |-> size]

\* The magic numbers tried: the right one, two that differ from it in one
\* half, and zero.
Magics == {Magic, U32(41394, 50133), U32(41395, 50132), U32Of(0)}

\* The versions tried, one of them equal to V2 in its lower half only.
Versions == {U32Of(1), U32Of(V2), U32Of(3), U32(1, V2)}

\* The account types tried, one past the enum and one equal to the price
\* type in its lower half only.
AccountTypes ==
    {U32Of(t) : t \in AccountTypeUnknown..(AccountTypePrice + 1)}
        \cup {U32(1, AccountTypePrice)}

\* The sizes tried, around the limit of 65536 and at the top of the range.
Sizes ==
    {U32Of(0), U32Of(ProductAccountHeaderLen), U32Of(65535), U32(1, 0),
     U32(65535, 65535)}

\* The headers handed to AccountHeader.Valid and, encoded, to PeekAccount.
HeaderValues ==
    {AccountHeader(m, v, t, z) :
        m \in Magics, v \in Versions, t \in AccountTypes, z \in Sizes}

\* n zero bytes.
Zeros(n) == [i \in 1..n |-> 0]

\* The data handed to PeekAccount: headers alone and with bytes after
\* them, no data, and a header that lacks its last byte.
PeekData ==
    {EncodeAccountHeader(h) \o t : h \in HeaderValues, t \in {<<>>, <<1, 2, 3>>}}
        \cup {<<>>,
              SubSeq(EncodeAccountHeader(AccountHeader(Magic, U32Of(V2),
                         U32Of(AccountTypePrice), U32Of(0))),
                     1, AccountHeaderLen - 1)}

\* The kinds of account and the length and type of their records.
AccountKinds == {"mapping", "product", "price"}

AccountLen(kind) ==
    CASE kind = "price" -> PriceAccountLen
      [] kind = "mapping" -> MappingAccountLen
      [] kind = "product" -> RawProductAccountLen

\* The headers of the records handed to UnmarshalBinary: each account
\* type with a valid header and with one field of the header off.
RecordHeaders ==
    {AccountHeader(x[1], x[2], U32Of(t), x[3]) :
        x \in {<<Magic, U32Of(V2), U32Of(ProductAccountHeaderLen)>>,
               <<U32Of(0), U32Of(V2), U32Of(ProductAccountHeaderLen)>>,
               <<Magic, U32Of(1), U32Of(ProductAccountHeaderLen)>>,
               <<Magic, U32Of(V2), U32(1, 0)>>},
        t \in AccountTypeUnknown..(AccountTypePrice + 1)}

\* The records handed to UnmarshalBinary: a header followed by zero
\* bytes, as long as the record, one byte longer, one byte shorter, and
\* the header alone.
Records(kind) ==
    {EncodeAccountHeader(h) \o Zeros(n - AccountHeaderLen) :
        h \in RecordHeaders,
        n \in {AccountHeaderLen, AccountLen(kind) - 1, AccountLen(kind),
               AccountLen(kind) + 1}}

\* The attribute bytes of the product accounts tried.
AttrPatterns == {<<1, 97, 1, 98, 1, 99, 1, 100>>, <<2, 97, 97, 1, 98, 0, 1, 99>>}

\* The numbers of attribute bytes the headers of these accounts declare.
AttrSizes == {0, 1, 4, 5, 8, AttrsDataLen}

\* Product accounts: a valid header that declares n attribute bytes, a
\* first price key, and an attribute region that holds a pattern followed
\* by a filler byte up to its end.
ProductRecords ==
    {EncodeAccountHeader(AccountHeader(Magic, U32Of(V2),
             U32Of(AccountTypeProduct), U32Of(ProductAccountHeaderLen + n)))
         \o Zeros(ProductAccountHeaderLen - AccountHeaderLen)
         \o pat \o [i \in 1..(AttrsDataLen - Len(pat)) |-> f] :
        n \in AttrSizes, pat \in AttrPatterns, f \in {0, 7}}

\* A header is about to be validated.
ValidInit ==
    /\ cOp = "valid"
    /\ cIn \in HeaderValues
    /\ cIns = Nil
    /\ cData = Nil
    /\ cDec = Nil
    /\ cpc = "start"

\* Account data is about to be peeked at.
PeekInit ==
    /\ cOp = "peek"
    /\ cIn \in PeekData
    /\ cIns = Nil
    /\ cData = Nil
    /\ cDec = Nil
    /\ cpc = "start"

\* Account data is about to be unmarshalled as one kind of account.
AccountInit ==
    /\ cOp = "account"
    /\ \E kind \in AccountKinds :
         \E data \in Records(kind)
                 \cup (IF kind = "product" THEN ProductRecords ELSE {}) :
            cIn = [kind |-> kind, data |-> data]
    /\ cIns = Nil
    /\ cData = Nil
    /\ cDec = Nil
    /\ cpc = "start"

\* AccountHeader.Valid is called.
ValidHeader ==
    /\ cOp = "valid"
    /\ cpc = "start"
    /\ cDec' = AccountHeader_Valid(cIn)
    /\ cpc' = "decoded"
    /\ UNCHANGED <<cOp, cIn, cIns, cData>>
    /\ UNCHANGED <<streamVars, hVars, qVars>>

\* PeekAccount is called.
Peek ==
    /\ cOp = "peek"
    /\ cpc = "start"
    /\ cDec' = PeekAccount(cIn)
    /\ cpc' = "decoded"
    /\ UNCHANGED <<cOp, cIn, cIns, cData>>
    /\ UNCHANGED <<streamVars, hVars, qVars>>

\* UnmarshalBinary of the requested kind is called.
UnmarshalAccount ==
    /\ cOp = "account"
    /\ cpc = "start"
    /\ cDec' = UnmarshalBinary(cIn.kind, cIn.data)
    /\ cpc' = "decoded"
    /\ UNCHANGED <<cOp, cIn, cIns, cData>>
    /\ UNCHANGED <<streamVars, hVars, qVars>>

\* The width in bits of the Price and Conf words of a PriceInfo (64 on
\* chain).
WordBits == 18

\* int64(u) of an unsigned word: the same bits read as two's complement.
Int64(u) == IF u >= 2 ^ (WordBits - 1) THEN u - 2 ^ WordBits ELSE u

\* decimal.New(value, exp): the number value * 10^exp.
Decimal(value, exp) == [value |-> value, exp |-> exp]

\* The zero value of decimal.Decimal.
ZeroDecimal == Decimal(0, 0)

\* PriceInfo.IsZero.
IsZero(p) == p = Nil \/ p = ZeroInfo

\* PriceInfo.Value.
Value(p, exponent) ==
    [price |-> Decimal(p.Price, exponent),
     conf |-> Decimal(Int64(p.Conf), exponent),
     ok |-> p.Status = PriceStatusTrading]

\* The named results of Previous and Current as a bare return leaves them.
NoValue == [price |-> ZeroDecimal, conf |-> ZeroDecimal, ok |-> FALSE]

\* PriceUpdate.Previous: Value is called and its results are dropped; the
\* bare return gives the named results, which nothing has assigned.
Previous(u) ==
    LET dropped == IF ~IsZero(u.PreviousInfo) /\ u.Account # Nil
                   THEN Value(u.PreviousInfo, u.Account.Exponent)
                   ELSE NoValue
    IN  NoValue

\* PriceUpdate.Current.
Current(u) ==
    IF ~IsZero(u.CurrentInfo) /\ u.Account # Nil
    THEN Value(u.CurrentInfo, u.Account.Exponent)
    ELSE NoValue

\* The exponents, prices, confidences and statuses Value is applied to: the
\* ends of the signed and of the unsigned range are among them.
Exponents == {-5, 0}
Prices == {112717, 0, -1, 0 - 2 ^ (WordBits - 1)}
Confs == {0, 5, 2 ^ (WordBits - 1) - 1, 2 ^ (WordBits - 1), 2 ^ WordBits - 1}
Statuses ==
    {PriceStatusUnknown, PriceStatusTrading, PriceStatusHalted,
     PriceStatusAuction}
ValueInfos ==
    [Price : Prices, Conf : Confs, Status : Statuses, CorpAct : {0},
     PubSlot : {7}]

\* The infos and accounts of the price updates Previous and Current are
\* applied to; a pointer may be nil.
UpdateInfos == {Nil, ZeroInfo, InfoA, InfoD}
UpdateAccounts == {Nil} \cup [Exponent : Exponents]
PriceUpdates ==
    [Account : UpdateAccounts, PreviousInfo : UpdateInfos,
     CurrentInfo : UpdateInfos]

\* InfoA with another corporate action.
InfoE == [InfoA EXCEPT !.CorpAct = 1]

\* The pairs HasChanged is applied to; a pointer may be nil.
ChangedInfos == {Nil, ZeroInfo, InfoE} \cup AggInfos

\* Value is about to be called on an info.
ValueInit ==
    /\ cOp = "value"
    /\ cIn \in [info : ValueInfos, exponent : Exponents]
    /\ cIns = Nil
    /\ cData = Nil
    /\ cDec = Nil
    /\ cpc = "start"

\* Previous or Current is about to be called on a price update.
UpdateInit ==
    /\ cOp \in {"previous", "current"}
    /\ cIn \in PriceUpdates
    /\ cIns = Nil
    /\ cData = Nil
    /\ cDec = Nil
    /\ cpc = "start"

\* HasChanged is about to be called on a pair of infos.
ChangedInit ==
    /\ cOp = "changed"
    /\ cIn \in [p : ChangedInfos, other : ChangedInfos]
    /\ cIns = Nil
    /\ cData = Nil
    /\ cDec = Nil
    /\ cpc = "start"

\* PriceInfo.Value is called.
InfoValue ==
    /\ cOp = "value"
    /\ cpc = "start"
    /\ cDec' = Value(cIn.info, cIn.exponent)
    /\ cpc' = "decoded"
    /\ UNCHANGED <<cOp, cIn, cIns, cData>>
    /\ UNCHANGED <<streamVars, hVars, qVars>>

\* PriceUpdate.Previous is called.
UpdatePrevious ==
    /\ cOp = "previous"
    /\ cpc = "start"
    /\ cDec' = Previous(cIn)
    /\ cpc' = "decoded"
    /\ UNCHANGED <<cOp, cIn, cIns, cData>>
    /\ UNCHANGED <<streamVars, hVars, qVars>>

\* PriceUpdate.Current is called.
UpdateCurrent ==
    /\ cOp = "current"
    /\ cpc = "start"
    /\ cDec' = Current(cIn)
    /\ cpc' = "decoded"
    /\ UNCHANGED <<cOp, cIn, cIns, cData>>
    /\ UNCHANGED <<streamVars, hVars, qVars>>

\* PriceInfo.HasChanged is called; the call ends in a panic when the result
\* is one.
InfoHasChanged ==
    /\ cOp = "changed"
    /\ cpc = "start"
    /\ cDec' = HasChanged(cIn.p, cIn.other)
    /\ cpc' = IF cIn.p = Nil /\ cIn.other = Nil THEN "panic" ELSE "decoded"
    /\ UNCHANGED <<cOp, cIn, cIns, cData>>
    /\ UNCHANGED <<streamVars, hVars, qVars>>

\* The longest byte string AttrsMap.UnmarshalBinary is applied to directly.
MaxRawLen == 4

\* The bytes of those strings: the lengths 0, 1 and 2, and a letter.
RawAttrBytes == {0, 1, 2, 97}

\* Data is about to be unmarshalled as an attribute list.
RawAttrsInit ==
    /\ cOp = "rawattrs"
    /\ cIn \in UNION {[1..n -> RawAttrBytes] : n \in 0..MaxRawLen}
    /\ cIns = Nil
    /\ cData = Nil
    /\ cDec = Nil
    /\ cpc = "start"

\* AttrsMap.UnmarshalBinary is called on the data.
UnmarshalRawAttrs ==
    /\ cOp = "rawattrs"
    /\ cpc = "start"
    /\ cDec' = AttrsMap_UnmarshalBinary(cIn)
    /\ cpc' = "decoded"
    /\ UNCHANGED <<cOp, cIn, cIns, cData>>
    /\ UNCHANGED <<streamVars, hVars, qVars>>

\* strings.Compare(a, b) < 0
StringLess(a, b) ==
    \/ \E i \in 1..Len(a) :
          /\ i <= Len(b)
          /\ a[i] < b[i]
          /\ \A j \in 1..(i - 1) : a[j] = b[j]
    \/ /\ Len(a) < Len(b)
       /\ \A j \in 1..Len(a) : a[j] = b[j]

\* AttrsMap.Sort on pairs with distinct keys: the pairs by ascending key.
Sort(pairs) ==
    LET all == {pairs[i] : i \in 1..Len(pairs)} IN
    [i \in 1..Len(pairs) |->
        CHOOSE p \in all :
            Cardinality({q \in all : StringLess(q[1], p[1])}) = i - 1]

\* AttrsMap.KVs: a later pair replaces an earlier one with the same key.
KVs(a) ==
    [k \in {a.Pairs[i][1] : i \in 1..Len(a.Pairs)} |->
        LET last == CHOOSE i \in 1..Len(a.Pairs) :
                        /\ a.Pairs[i][1] = k
                        /\ \A j \in (i + 1)..Len(a.Pairs) : a.Pairs[j][1] # k
        IN  a.Pairs[last][2]]

\* NewAttrsMap from the i-th key of the iteration order on: an entry that
\* is too long returns what has been appended so far.
RECURSIVE NewAttrsMapInOrder(_, _, _, _)
NewAttrsMapInOrder(fromGo, order, i, pairs) ==
    IF i > Len(order) THEN [out |-> [Pairs |-> Sort(pairs)], err |-> NoError]
    ELSE IF Len(order[i]) > 255
    THEN [out |-> [Pairs |-> pairs], err |-> "key too long"]
    ELSE IF Len(fromGo[order[i]]) > 255
    THEN [out |-> [Pairs |-> pairs], err |-> "value too long"]
    ELSE NewAttrsMapInOrder(fromGo, order, i + 1,
                            Append(pairs, <<order[i], fromGo[order[i]]>>))

\* NewAttrsMap: every result the map's iteration order allows.
NewAttrsMap(fromGo) ==
    {NewAttrsMapInOrder(fromGo, o, 1, <<>>) : o \in RangeOrders(fromGo)}

\* The Go maps NewAttrsMap is given: short keys and one of 256 bytes, short
\* values, one of 255 bytes and one of 256 bytes.
GoMapKeys == {<<97>>, <<98, 99>>, [i \in 1..256 |-> 65]}
GoMapValues == {<<58, 41>>, [i \in 1..255 |-> 65], [i \in 1..256 |-> 65]}
GoMaps == UNION {[D -> GoMapValues] : D \in SUBSET GoMapKeys}

\* NewAttrsMap is about to be called on a Go map.
NewAttrsInit ==
    /\ cOp = "newattrs"
    /\ cIn \in GoMaps
    /\ cIns = Nil
    /\ cData = Nil
    /\ cDec = Nil
    /\ cpc = "start"

\* NewAttrsMap is called.
NewAttrs ==
    /\ cOp = "newattrs"
    /\ cpc = "start"
    /\ \E r \in NewAttrsMap(cIn) : cDec' = r
    /\ cpc' = "decoded"
    /\ UNCHANGED <<cOp, cIn, cIns, cData>>
    /\ UNCHANGED <<streamVars, hVars, qVars>>

---------------------------------------------------------------------------
(* Claims about instructions                                               *)

\* C17: for every command and every argument set, decoding the encoding
\* of a built instruction with the built instruction's accounts succeeds
\* and gives an instruction whose header, account list and payload equal
\* those of the built one.
C17_BuildRoundTrip ==
    (cOp = "build" /\ cpc = "decoded") =>
        /\ cDec.err = Nil
        /\ cDec.ins # Nil
        /\ cDec.ins.header = cIns.header
        /\ cDec.ins.accounts = cIns.accounts
        /\ cDec.ins.impl = cIns.impl

\* The number of accounts each command is documented to take.
ClaimedArity(cmd) ==
    CASE cmd = Instruction_InitMapping -> 2
      [] cmd = Instruction_AddMapping -> 3
      [] cmd = Instruction_AddProduct -> 3
      [] cmd = Instruction_UpdProduct -> 2
      [] cmd = Instruction_AddPrice -> 3
      [] cmd = Instruction_AddPublisher -> 2
      [] cmd = Instruction_DelPublisher -> 2
      [] cmd = Instruction_UpdPrice -> 3
      [] cmd = Instruction_SetMinPub -> 2
      [] OTHER -> numAccounts(cmd)

\* The header of the data handed to the decoder.
RawHeader == DecodeStruct(Layout("CommandHeader"), cIn.data, 1)

\* The decoder was handed data that starts with a whole header.
RawDecoded ==
    /\ cOp = "decode"
    /\ cpc = "decoded"
    /\ Len(cIn.data) >= LayoutSize(Layout("CommandHeader"), 1)

\* C18: decoding succeeds only when the number of accounts equals the
\* command's arity (update-product 2 among them); for any other number it
\* returns no instruction and an error that names the expected and the
\* actual number, whatever the payload bytes are.
C18_ArityBeforePayload ==
    (RawDecoded /\ Valid(RawHeader)) =>
        IF Len(cIn.accounts) = ClaimedArity(RawHeader.Cmd)
        THEN cDec.ins # Nil
                \/ cDec.err.msg # "expected accounts but got"
        ELSE /\ cDec.ins = Nil
             /\ cDec.err.msg = "expected accounts but got"
             /\ cDec.err.expected = ClaimedArity(RawHeader.Cmd)
             /\ cDec.err.got = Len(cIn.accounts)

\* C19: whenever the header's version is not 2 or its command is outside
\* 0..13, the decoder returns no instruction and the error "not a valid
\* Pyth instruction", whatever bytes follow and whatever accounts are given.
C19_InvalidHeaderRejected ==
    (RawDecoded /\ (RawHeader.Version # 2 \/ RawHeader.Cmd \notin 0..13)) =>
        /\ cDec.ins = Nil
        /\ cDec.err = [msg |-> "not a valid Pyth instruction"]

\* A supported version with the first command past the range, with
\* accounts and payload bytes, was rejected.
C19_Witness ==
    /\ RawDecoded
    /\ RawHeader = [Version |-> V2, Cmd |-> instruction_count]
    /\ Len(cIn.accounts) = 2
    /\ Len(cIn.data) > LayoutSize(Layout("CommandHeader"), 1)
    /\ cDec.ins = Nil

\* C33: whenever the decoder succeeds on data and an account list, Data of
\* the instruction it returns gives that data back byte for byte.
C33_DecodeThenEncode ==
    (cOp = "decode" /\ cpc = "reencoded") =>
        /\ cData.err = NoError
        /\ cData.data = cIn.data

\* The payload struct of each command that carries one of a fixed size.
FixedPayload(cmd) ==
    CASE cmd = Instruction_AddPrice -> "CommandAddPrice"
      [] cmd = Instruction_InitPrice -> "CommandInitPrice"
      [] cmd = Instruction_AddPublisher -> "CommandAddPublisher"
      [] cmd = Instruction_DelPublisher -> "CommandDelPublisher"
      [] cmd = Instruction_UpdPrice -> "CommandUpdPrice"
      [] cmd = Instruction_UpdPriceNoFailOnError -> "CommandUpdPrice"
      [] cmd = Instruction_UpdTest -> "CommandUpdTest"
      [] cmd = Instruction_SetMinPub -> "CommandSetMinPub"
      [] OTHER -> ""

\* C34: for a command with a payload of a fixed size, the decoder returns
\* no instruction and an error when the bytes after the header are fewer
\* or more than the payload struct.
C34_PayloadSizeIsExact ==
    (/\ RawDecoded
     /\ Valid(RawHeader)
     /\ FixedPayload(RawHeader.Cmd) # ""
     /\ Len(cIn.data) - LayoutSize(Layout("CommandHeader"), 1)
            # LayoutSize(Layout(FixedPayload(RawHeader.Cmd)), 1))
        => (cDec.ins = Nil /\ cDec.err # Nil)


---------------------------------------------------------------------------
(* Claims about attribute lists                                            *)

\* Every key and value of the attribute list is at most 255 bytes long.
FitsLengthByte(a) ==
    \A i \in 1..Len(a.Pairs) : Len(a.Pairs[i][1]) <= 255 /\ Len(a.Pairs[i][2]) <= 255

\* C20: for every attribute list whose keys and values are at most 255
\* bytes long, empty strings and duplicate keys included, unmarshalling
\* what MarshalBinary returned succeeds and gives the same pairs in the
\* same order.
C20_AttrsRoundTrip ==
    (cOp = "attrs" /\ cpc = "decoded" /\ FitsLengthByte(cIn)) =>
        /\ cDec.err = NoError
        /\ cDec.out.Pairs = cIn.Pairs


---------------------------------------------------------------------------
(* Claims about accounts                                                   *)

\* A product account with a valid header was unmarshalled.
ProductDecoded ==
    /\ cOp = "account"
    /\ cpc = "decoded"
    /\ cIn.kind = "product"
    /\ UnmarshalChecks(cIn.data, RawProductAccountLen, AccountTypeProduct,
                       "not a product account") = NoError

\* The number of attribute bytes the header of the account declares.
DeclaredAttrBytes ==
    DecodeAccountHeader(cIn.data).Size.lo - ProductAccountHeaderLen

\* What parsing the first n bytes of the attribute region gives.
ParseOfFirst(n) ==
    LET r == AttrsMap_UnmarshalBinary(
                 SubSeq(cIn.data, ProductAccountHeaderLen + 1,
                        ProductAccountHeaderLen + n))
    IN  [err |-> r.err, Attrs |-> r.out]

\* C21: for every N up to the length of the attribute region, decoding a
\* product account whose header size is 48 + N parses exactly the first N
\* bytes of the attribute region;
\* no byte at offset N or beyond is read as part of a pair, and N = 0
\* gives an empty attribute list.
C21_AttrsClippedToSize ==
    (ProductDecoded /\ DeclaredAttrBytes \in 0..AttrsDataLen) =>
        /\ cDec = ParseOfFirst(DeclaredAttrBytes)
        /\ DeclaredAttrBytes = 0 =>
               cDec = [err |-> NoError, Attrs |-> [Pairs |-> <<>>]]


\* Account data was unmarshalled as one kind of account.
AccountDecoded == cOp = "account" /\ cpc = "decoded"

\* The account type a kind of account is stored with.
TypeOfKind(kind) ==
    CASE kind = "price" -> AccountTypePrice
      [] kind = "mapping" -> AccountTypeMapping
      [] kind = "product" -> AccountTypeProduct

\* The data is at least as long as the record of its kind.
WholeRecord == Len(cIn.data) >= AccountLen(cIn.kind)

\* C22: UnmarshalBinary of a mapping, product or price account returns an
\* error when the data is shorter than the record, when the header is not
\* valid, or when the header is valid but its account type is not the
\* requested kind.
C22_UnmarshalFailsClosed ==
    (/\ AccountDecoded
     /\ \/ ~WholeRecord
        \/ ~AccountHeader_Valid(DecodeAccountHeader(cIn.data))
        \/ DecodeAccountHeader(cIn.data).AccountType
               # U32Of(TypeOfKind(cIn.kind)))
        => cDec.err # NoError

\* A price account record with a valid header of type product was
\* refused as a price account.
C22_Witness ==
    /\ AccountDecoded
    /\ cIn.kind = "price"
    /\ WholeRecord
    /\ AccountHeader_Valid(DecodeAccountHeader(cIn.data))
    /\ DecodeAccountHeader(cIn.data).AccountType = U32Of(AccountTypeProduct)
    /\ cDec.err = "not a price account"


\* A header was handed to AccountHeader.Valid.
HeaderValidated == cOp = "valid" /\ cpc = "decoded"

\* C23: AccountHeader.Valid is true iff the magic is 0xa1b2c3d4 (the bytes
\* d4 c3 b2 a1 in little-endian order), the version is 2 and the size is
\* less than 65536; the account type has no part in it.
C23_HeaderValidity ==
    HeaderValidated =>
        /\ cDec = (/\ EncodeU32(cIn.Magic) = <<212, 195, 178, 161>>
                   /\ EncodeU32(cIn.Version) = <<2, 0, 0, 0>>
                   /\ cIn.Size.hi = 0)
        /\ \A t \in AccountTypes :
               AccountHeader_Valid([cIn EXCEPT !.AccountType = t]) = cDec

\* A header with the largest valid size and an account type past the enum
\* was found valid.
C23_Witness ==
    /\ HeaderValidated
    /\ cIn.Size = U32Of(65535)
    /\ cIn.AccountType = U32Of(AccountTypePrice + 1)
    /\ cDec = TRUE


\* Account data was handed to PeekAccount.
Peeked == cOp = "peek" /\ cpc = "decoded"

\* The data starts with a whole header whose magic bytes, version bytes
\* and upper size bytes are those of a valid header.
StartsWithValidHeader(data) ==
    /\ Len(data) >= 16
    /\ SubSeq(data, 1, 4) = <<212, 195, 178, 161>>
    /\ SubSeq(data, 5, 8) = <<2, 0, 0, 0>>
    /\ SubSeq(data, 15, 16) = <<0, 0>>

\* C24: PeekAccount gives a result for every byte string: unknown (0)
\* when the data is shorter than the 16-byte header or the header is not
\* valid, otherwise the account type field of the header; and the stream's
\* filter lets a notification through only when this result is the price
\* type.
C24_PeekIsTotal ==
    /\ Peeked =>
          cDec = IF StartsWithValidHeader(cIn)
                 THEN DecodeU32(cIn, 9)
                 ELSE U32Of(0)
    /\ \A n \in Notifications :
          Accepted(n) => PeekAccount(AccountData(n.data)) = U32Of(3)

\* Data that starts with a valid header of a type other than price and
\* goes on after it was peeked at and its type returned.
C24_Witness ==
    /\ Peeked
    /\ Len(cIn) > AccountHeaderLen
    /\ StartsWithValidHeader(cIn)
    /\ cDec = U32Of(AccountTypeProduct)


---------------------------------------------------------------------------
(* Claims about price values                                               *)

\* The price update whose CurrentInfo is the PreviousInfo of u.
AsCurrent(u) ==
    [Account |-> u.Account, PreviousInfo |-> Nil, CurrentInfo |-> u.PreviousInfo]

\* C25: Previous returns for PreviousInfo what Current returns for the same
\* info as CurrentInfo: its price and confidence scaled by the account's
\* exponent, with ok true iff it is present, non-zero and trading.
C25_PreviousLikeCurrent ==
    (cOp = "previous" /\ cpc = "decoded") => cDec = Current(AsCurrent(cIn))

\* C26: Value returns Price and Conf, each scaled by the exponent, for
\* every signed Price and every unsigned Conf of the word width, with ok
\* true iff the status is trading.
C26_ValueScales ==
    (cOp = "value" /\ cpc = "decoded") =>
        /\ cDec.price = Decimal(cIn.info.Price, cIn.exponent)
        /\ cDec.conf = Decimal(cIn.info.Conf, cIn.exponent)
        /\ cDec.ok = (cIn.info.Status = PriceStatusTrading)

\* C30: HasChanged returns true iff exactly one of the two infos is absent,
\* or both are present and differ in Status or in PubSlot; in particular it
\* returns false when both are absent.
C30_HasChangedDefinition ==
    (cOp = "changed" /\ cpc # "start") =>
        /\ cpc = "decoded"
        /\ cDec = (\/ (cIn.p = Nil) # (cIn.other = Nil)
                   \/ /\ cIn.p # Nil
                      /\ cIn.other # Nil
                      /\ \/ cIn.p.Status # cIn.other.Status
                         \/ cIn.p.PubSlot # cIn.other.PubSlot)

---------------------------------------------------------------------------
(* Claims about the notifications of a subscription                        *)

\* The notification a step receives.
Received == notifs'[Len(notifs')]

\* The owner of a notification is the target program and its data peeks as
\* a price account.
OwnedPrice(n) ==
    /\ n.owner = Program
    /\ PeekAccount(AccountData(n.data)) = U32Of(AccountTypePrice)

\* The data of a notification decodes as a price account.
Decodes(n) == PriceAccount_UnmarshalBinary(AccountData(n.data)).err = NoError

\* The receive ends without an error and without a change of the
\* subscription, and the next receive on it follows.
DroppedQuietly ==
    /\ pc' = "recv"
    /\ msg' = 0
    /\ sub' = "open"
    /\ client' = "open"
    /\ delivered' = delivered
    /\ UNCHANGED <<ctxErr, lastErr, retErr, closeCount>>

\* C27: a notification goes to the updates channel only if its owner is the
\* target program and its data peeks as a price account; one that fails
\* either test is dropped with no error, the subscription stays open and
\* the next receive follows on it.
C27_FilterDrops ==
    [][/\ notifs' # notifs =>
            /\ pc' = "push" => OwnedPrice(Received)
            /\ ~OwnedPrice(Received) => DroppedQuietly
       /\ delivered' # delivered =>
            OwnedPrice(notifs[delivered'[Len(delivered')]])]_vars

\* A notification of another owner was dropped and the next one delivered.
C27_Witness ==
    /\ Len(notifs) = 2
    /\ notifs[1] = [owner |-> "other", data |-> "price"]
    /\ delivered = <<2>>

\* C28: a notification that passes the filter and fails to decode as a
\* price account is dropped: no error, nothing pushed for it, the
\* subscription stays open with no reconnect, and the next receive follows.
C28_DecodeFailureDrops ==
    [][/\ (notifs' # notifs /\ OwnedPrice(Received) /\ ~Decodes(Received)) =>
            DroppedQuietly
       /\ delivered' # delivered =>
            Decodes(notifs[delivered'[Len(delivered')]])]_vars

\* A price account that lacks its last byte was dropped and the next
\* notification delivered on the same subscription.
C28_Witness ==
    /\ Len(notifs) = 2
    /\ notifs[1] = [owner |-> Program, data |-> "cut"]
    /\ delivered = <<2>>
    /\ sub = "open"

---------------------------------------------------------------------------
(* Claims about the decoding of attribute lists                            *)

\* The bytes a list of pairs stands for: each key and each value behind a
\* byte that holds its length.
RECURSIVE PairBytes(_, _)
PairBytes(pairs, i) ==
    IF i > Len(pairs) THEN <<>>
    ELSE <<Len(pairs[i][1])>> \o pairs[i][1]
            \o <<Len(pairs[i][2])>> \o pairs[i][2] \o PairBytes(pairs, i + 1)

\* C32: decoding an attribute list never returns a pair whose key or value
\* was shortened or padded: the pairs returned stand for a prefix of the
\* data, and for all of it when no error is returned, so that a length
\* prefix that announces more bytes than remain, or a key without a value,
\* gives an error.
C32_AttrsDecodeIsExact ==
    (cOp = "rawattrs" /\ cpc = "decoded") =>
        LET m == PairBytes(cDec.out.Pairs, 1) IN
        /\ Len(m) <= Len(cIn)
        /\ SubSeq(cIn, 1, Len(m)) = m
        /\ cDec.err = NoError => m = cIn

\* A key or a value of the Go map is longer than a length byte can hold.
HasLongString(m) == \E k \in DOMAIN m : Len(k) > 255 \/ Len(m[k]) > 255

\* C35: NewAttrsMap returns an error and an AttrsMap without pairs whenever
\* a key or a value of the map is longer than 255 bytes, whatever else the
\* map holds; otherwise it returns every entry of the map exactly once.
C35_NewAttrsMapAllOrNothing ==
    (cOp = "newattrs" /\ cpc = "decoded") =>
        IF HasLongString(cIn)
        THEN /\ cDec.err # NoError
             /\ cDec.out.Pairs = <<>>
             /\ DOMAIN KVs(cDec.out) = {}
        ELSE /\ cDec.err = NoError
             /\ Len(cDec.out.Pairs) = Cardinality(DOMAIN cIn)
             /\ \A k \in DOMAIN cIn :
                  \E i \in 1..Len(cDec.out.Pairs) :
                      cDec.out.Pairs[i] = <<k, cIn[k]>>

---------------------------------------------------------------------------
(* Claims about the result of the price walk                               *)

\* C36: when the start keys are pairwise distinct, the result of
\* GetPriceAccountsRecursive holds no two entries with the same key.
C36_NoDuplicateEntries ==
    (/\ qOp = "prices"
     /\ qpc \in {"done", "error"}
     /\ \A i, j \in 1..Len(qStart) : i # j => qStart[i] # qStart[j])
        => \A i, j \in 1..Len(qRet) : i # j => qRet[i].Pubkey # qRet[j].Pubkey

---------------------------------------------------------------------------

Init == StreamInit /\ HandlerInit /\ QueryIdle /\ CodecIdle

QueryInit ==
    /\ StreamInit
    /\ HandlerInit
    /\ CodecIdle
    /\ \/ GetAllProductKeysInit
       \/ GetPriceAccountsRecursiveInit
       \/ GetAllProductAccountsInit

QueryNext ==
    \/ GetAllProductKeys
    \/ GetPriceAccountsRecursive
    \/ GetAllProductAccounts

\* The queries, each on the accounts it finds on chain.
QuerySpec == QueryInit /\ [][QueryNext]_vars

CodecInit ==
    /\ StreamInit
    /\ HandlerInit
    /\ QueryIdle
    /\ \/ BuildInit
       \/ DecodeInit
       \/ AttrsInit
       \/ ValidInit
       \/ PeekInit
       \/ AccountInit
       \/ ValueInit
       \/ UpdateInit
       \/ ChangedInit
       \/ RawAttrsInit
       \/ NewAttrsInit

CodecNext ==
    \/ Build
    \/ Encode
    \/ DecodeBuilt
    \/ DecodeRaw
    \/ EncodeDecoded
    \/ MarshalAttrs
    \/ UnmarshalAttrs
    \/ ValidHeader
    \/ Peek
    \/ UnmarshalAccount
    \/ InfoValue
    \/ UpdatePrevious
    \/ UpdateCurrent
    \/ InfoHasChanged
    \/ UnmarshalRawAttrs
    \/ NewAttrs

\* The conversions, each on the input it is given.
CodecSpec == CodecInit /\ [][CodecNext]_vars

\* The stream with its consumer.
Spec == Init /\ [][StreamNext]_vars

\* The dispatcher with its registrations and the updates it is fed.
HandlerSpec == Init /\ [][HandlerNext]_vars

=============================================================================
